---- MODULE Spec2Model ----
(***************************************************************************)
(* LocalMind core: the ContextManager (profiles, context rules, the       *)
(* shared current mode and its transition trail, learning buckets) and    *)
(* the RequestProcessor (process_user_request, handle_mode_switch, the    *)
(* bounded global request history), as a state machine.                   *)
(*                                                                         *)
(* The SQLite tables of context.py are modelled by what they hold:        *)
(*   user_profiles   -> profiles, a function keyed by user_id (PRIMARY    *)
(*                      KEY), absent users are outside its domain;        *)
(*   context_rules   -> rules, the rows in rowid (AUTOINCREMENT) order;   *)
(*   context_history -> context_history, the rows in rowid order.         *)
(* The json.dumps / json.loads round trip of the stored maps is the       *)
(* identity on the maps used here (string keys, string values).           *)
(* datetime.now() reads the variable clock, which every handler that      *)
(* reads the time advances by one; the time of day is clock % DayLen.     *)
(***************************************************************************)
EXTENDS Integers, Sequences, FiniteSets, TLC

VARIABLES
    profiles,         \* table user_profiles: user_id -> UserProfile
    rules,            \* table context_rules, rows in rowid order
    context_history,  \* table context_history (mode transition trail)
    current_mode,     \* ContextManager.current_mode (one value, all users)
    current_user_id,  \* ContextManager.current_user_id
    request_history,  \* RequestProcessor.request_history
    initialized,      \* AIEngine._initialized
    clock,            \* the reading of datetime.now()
    ret,              \* the last call: its name, arguments and outcome
    served,           \* history variable: every entry ever appended to
                      \* request_history, in the order of the appends
    cleared,          \* history variable: clear_user_data has been called
    tasks,            \* the process_user_request coroutines run as
                      \* concurrent tasks of the event loop, in the order
                      \* they were started: their locals and their position
    privacy_settings, \* PrivacyManager, table privacy_settings:
                      \* user_id -> PrivacySettings
    active_sessions,  \* ChatInterface: session_id -> session
    conversation_history
                      \* ChatInterface: the ended sessions, oldest first

vars == <<profiles, rules, context_history, current_mode, current_user_id,
          request_history, initialized, clock, ret, served, cleared, tasks,
          privacy_settings, active_sessions, conversation_history>>

---------------------------------------------------------------------------
(* Values *)

\* Python's None, where a string or None is returned or stored.
None == "<None>"

Users == {"u1", "u2"}

\* ProcessingMode (engine.py) and valid_modes (processor.py).
ValidModes == {"work", "personal", "mixed"}

\* Strings a caller can pass as a mode or store as a rule's target_mode:
\* neither switch_mode nor add_context_rule validates them.
ModeStrings == ValidModes \cup {"vacation", ""}

\* Python truthiness of an Optional[str].
Truthy(x) == x # None /\ x # ""

EmptyMap == <<>>

\* dict.get(key, default)
Get(d, key, default) == IF key \in DOMAIN d THEN d[key] ELSE default

\* Faulty variant of dict_update: the base wins on the keys it has.
dict_update_drop(base, upd) ==
    [k \in DOMAIN base \cup DOMAIN upd |->
        IF k \in DOMAIN base THEN base[k] ELSE upd[k]]

\* dict.update(upd) on a copy of base: upd wins on the keys it has.
dict_update(base, upd) ==
    [k \in DOMAIN base \cup DOMAIN upd |->
        IF k \in DOMAIN upd THEN upd[k] ELSE base[k]]

\* seq[-n:] for n >= 0 (Python: seq[-0:] is the whole list).
tail_slice(seq, n) ==
    IF n = 0 \/ n >= Len(seq) THEN seq
    ELSE SubSeq(seq, Len(seq) - n + 1, Len(seq))

\* Keep only recent history (last 100 requests).
HistoryCap == 100

\* Keep only recent interactions (last 1000).
LearningCap == 1000

\* get_context_summary counts the user's requests among the last 20.
SummaryWindow == 20

\* The length of a day in clock ticks (time-of-day = clock % DayLen).
DayLen == 4

TimeOfDay(t) == t % DayLen

---------------------------------------------------------------------------
(* Strings whose characters matter: calendar event titles and keywords    *)
(* are sequences of characters.                                            *)

LowerChar(c) ==
    CASE c = "S" -> "s"
      [] c = "Y" -> "y"
      [] c = "N" -> "n"
      [] c = "C" -> "c"
      [] OTHER -> c

\* str.lower()
lower(str) == [i \in DOMAIN str |-> LowerChar(str[i])]

\* a in b, for strings
contains(b, a) ==
    \E i \in 0..(Len(b) - Len(a)) : SubSeq(b, i + 1, i + Len(a)) = a

---------------------------------------------------------------------------
(* ContextManager: the store is the record of its tables and fields.      *)

Store ==
    [profiles |-> profiles, rules |-> rules,
     context_history |-> context_history,
     current_mode |-> current_mode, current_user_id |-> current_user_id]

\* get_user_profile: the row of user_id, or none.
has_profile(s, user_id) == user_id \in DOMAIN s.profiles

\* None, where a UserProfile or None is returned.
NoProfile == [user_id |-> None, name |-> None]

\* Faulty variant of get_user_profile: the WHERE clause is dropped, the
\* first row of the table is returned.
get_user_profile_any(s, user_id) ==
    IF DOMAIN s.profiles = {} THEN NoProfile
    ELSE s.profiles[CHOOSE u \in DOMAIN s.profiles : TRUE]

\* get_user_profile: the UserProfile built from the row of user_id, None
\* when fetchone() finds no row.
get_user_profile(s, user_id) ==
    IF user_id \in DOMAIN s.profiles THEN s.profiles[user_id]
    ELSE NoProfile

\* create_user_profile: INSERT of a fresh row; the PRIMARY KEY makes the
\* INSERT raise when the user_id is present.
create_user_profile(s, user_id, name, prefs, now) ==
    [s EXCEPT !.profiles =
        [u \in DOMAIN s.profiles \cup {user_id} |->
            IF u = user_id
            THEN [user_id |-> user_id, name |-> name, preferences |-> prefs,
                  work_context |-> EmptyMap, personal_context |-> EmptyMap,
                  learning_data |-> EmptyMap,
                  created_at |-> now, updated_at |-> now]
            ELSE s.profiles[u]]]

\* Faulty variant of update_user_context: the updates are merged into
\* both maps.
update_user_context_both(s, user_id, context_type, updates, now) ==
    [s EXCEPT !.profiles[user_id] =
        [@ EXCEPT !.work_context = dict_update(@, updates),
                  !.personal_context = dict_update(@, updates),
                  !.updated_at = now]]

\* update_user_context, on an existing profile and a valid context_type.
update_user_context(s, user_id, context_type, updates, now) ==
    LET p == s.profiles[user_id]
        q == IF context_type = "work"
             THEN [p EXCEPT !.work_context = dict_update(@, updates),
                            !.updated_at = now]
             ELSE [p EXCEPT !.personal_context = dict_update(@, updates),
                            !.updated_at = now]
    IN [s EXCEPT !.profiles[user_id] = q]

\* The ValueError update_user_context raises, by its message, or None:
\* the profile is looked up before the context type is examined.
update_user_context_error(s, user_id, context_type) ==
    IF ~has_profile(s, user_id) THEN "User profile not found"
    ELSE IF context_type \notin {"work", "personal"}
         THEN "Invalid context type"
         ELSE None

\* add_context_rule: INSERT, the new row gets the next rowid.
add_context_rule(s, user_id, rule) ==
    [s EXCEPT !.rules = Append(@,
        [user_id |-> user_id, name |-> rule.name,
         trigger_type |-> rule.trigger_type,
         trigger_value |-> rule.trigger_value,
         target_mode |-> rule.target_mode,
         priority |-> rule.priority, active |-> rule.active])]

\* Faulty variant of insert_by_priority: a row goes after the rows of
\* equal priority that were inserted after it.
insert_unstable(row, sorted) ==
    LET n == Cardinality({i \in DOMAIN sorted :
                             sorted[i].priority >= row.priority})
    IN SubSeq(sorted, 1, n) \o <<row>> \o SubSeq(sorted, n + 1, Len(sorted))

\* ORDER BY priority DESC over rows scanned in rowid order: SQLite's sorter
\* keeps rows of equal priority in scan order.
insert_by_priority(row, sorted) ==
    LET n == Cardinality({i \in DOMAIN sorted :
                             sorted[i].priority > row.priority})
    IN SubSeq(sorted, 1, n) \o <<row>> \o SubSeq(sorted, n + 1, Len(sorted))

RECURSIVE order_by_priority_desc(_)
order_by_priority_desc(rows) ==
    IF Len(rows) = 0 THEN <<>>
    ELSE insert_by_priority(Head(rows), order_by_priority_desc(Tail(rows)))

\* Faulty variant of rule_selected: the active flag is not tested.
rule_selected_any(row, user_id) == row.user_id = user_id

\* WHERE user_id = ? AND active = 1
rule_selected(row, user_id) == row.user_id = user_id /\ row.active

\* get_context_rules
get_context_rules(s, user_id) ==
    order_by_priority_desc(
        SelectSeq(s.rules, LAMBDA row : rule_selected(row, user_id)))

\* Faulty variant of in_window: a window whose start is after its end
\* wraps around midnight.
in_window_wrapping(start_time, end_time, current_time) ==
    IF start_time <= end_time
    THEN start_time <= current_time /\ current_time <= end_time
    ELSE start_time <= current_time \/ current_time <= end_time

\* start_time <= current_time <= end_time
in_window(start_time, end_time, current_time) ==
    start_time <= current_time /\ current_time <= end_time

\* _rule_matches
rule_matches(rule, context, now) ==
    IF rule.trigger_type = "time"
    THEN in_window(rule.trigger_value.start, rule.trigger_value.end,
                   TimeOfDay(now))
    ELSE IF rule.trigger_type = "location"
    THEN Get(context, "location", None) = rule.trigger_value
    ELSE IF rule.trigger_type = "calendar"
    THEN LET events == Get(context, "calendar_events", <<>>)
         IN \E i \in DOMAIN events :
                contains(lower(Get(events[i], "title", <<>>)),
                         rule.trigger_value)
    ELSE FALSE

\* evaluate_context_switch: the target of the first rule that matches.
first_match(matching) == matching[1].target_mode

evaluate_context_switch(s, user_id, context, now) ==
    LET matching == SelectSeq(get_context_rules(s, user_id),
                              LAMBDA r : rule_matches(r, context, now))
    IN IF Len(matching) = 0 THEN None ELSE first_match(matching)

\* The context_history row switch_mode inserts.
transition_record(user_id, new_mode, reason, old_mode, now) ==
    [user_id |-> user_id, timestamp |-> now, mode |-> new_mode,
     trigger_reason |-> reason,
     context_snapshot |-> [previous_mode |-> old_mode]]

\* Faulty variant of switch_mode: previous_mode is read after the
\* assignment of current_mode.
switch_mode_stale_previous(s, user_id, new_mode, reason, now) ==
    [s EXCEPT !.current_mode = new_mode,
              !.current_user_id = user_id,
              !.context_history = Append(@,
                  transition_record(user_id, new_mode, reason,
                                    new_mode, now))]

\* switch_mode: old_mode is read first, then current_mode is assigned (any
\* string) and the row inserted.
switch_mode(s, user_id, new_mode, reason, now) ==
    [s EXCEPT !.current_mode = new_mode,
              !.current_user_id = user_id,
              !.context_history = Append(@,
                  transition_record(user_id, new_mode, reason,
                                    s.current_mode, now))]

\* switch_mode when its INSERT raises (sqlite3.OperationalError: the
\* database is locked, the disk is full): current_mode and
\* current_user_id are assigned before the INSERT, no row is written.
switch_mode_insert_fails(s, user_id, new_mode) ==
    [s EXCEPT !.current_mode = new_mode, !.current_user_id = user_id]

\* get_current_context
get_current_context(s, user_id) ==
    IF ~has_profile(s, user_id) THEN EmptyMap
    ELSE IF s.current_mode = "work" THEN s.profiles[user_id].work_context
    ELSE IF s.current_mode = "personal"
    THEN s.profiles[user_id].personal_context
    ELSE dict_update(s.profiles[user_id].personal_context,
                     s.profiles[user_id].work_context)

\* Faulty variant of append_event: the bucket is not truncated.
append_event_unbounded(bucket, event) == Append(bucket, event)

\* The event appended to its bucket, then the bucket cut to its last 1000
\* events.
append_event(bucket, event) ==
    tail_slice(Append(bucket, event), LearningCap)

\* A learn_from_interaction that writes a bucket holding the new event
\* only: the events stored before are lost.
learn_from_interaction_overwrite(s, user_id, interaction_data, now) ==
    IF ~has_profile(s, user_id) THEN s
    ELSE LET learning_key == s.current_mode \o "_interactions"
             old == s.profiles[user_id].learning_data
             event == [request_text |-> interaction_data.request_text,
                       response_text |-> interaction_data.response_text,
                       actions_count |-> interaction_data.actions_count,
                       confidence |-> interaction_data.confidence,
                       voice_input |-> interaction_data.voice_input,
                       timestamp |-> now, mode |-> s.current_mode]
         IN [s EXCEPT !.profiles[user_id].learning_data =
                          dict_update(old, [k \in {learning_key} |-> <<event>>]),
                      !.profiles[user_id].updated_at = now]

\* learn_from_interaction
learn_from_interaction(s, user_id, interaction_data, now) ==
    IF ~has_profile(s, user_id) THEN s
    ELSE LET learning_key == s.current_mode \o "_interactions"
             old == s.profiles[user_id].learning_data
             event == [request_text |-> interaction_data.request_text,
                       response_text |-> interaction_data.response_text,
                       actions_count |-> interaction_data.actions_count,
                       confidence |-> interaction_data.confidence,
                       voice_input |-> interaction_data.voice_input,
                       timestamp |-> now, mode |-> s.current_mode]
             bucket == append_event(Get(old, learning_key, <<>>), event)
         IN [s EXCEPT !.profiles[user_id].learning_data =
                          dict_update(old, [k \in {learning_key} |-> bucket]),
                      !.profiles[user_id].updated_at = now]

\* len(s) of the strings that are stored in the learning data.
strlen(str) ==
    CASE str = "hi" -> 2
      [] str = "work" -> 4
      [] str = "mixed" -> 5
      [] str = "personal" -> 8
      [] str = "work_interactions" -> 17
      [] str = "mixed_interactions" -> 18
      [] str = "personal_interactions" -> 21
      [] str = "I'll open spotify and perform that action for you." -> 50

\* len(str(event)) of a learning event: the dict of its seven items, the
\* count and the confidence printed with one and three characters, the
\* timestamp as the 26 characters of datetime.isoformat().
event_len(event) ==
    157 + strlen(event.request_text) + strlen(event.response_text)
        + strlen(event.mode) - (IF event.voice_input THEN 1 ELSE 0)

\* len(str(bucket)) of a list of events: "[", the events joined by ", ",
\* "]".
RECURSIVE events_len(_)
events_len(bucket) ==
    IF Len(bucket) = 0 THEN 0
    ELSE event_len(Head(bucket)) + events_len(Tail(bucket))
         + (IF Len(bucket) > 1 THEN 2 ELSE 0)

\* The items 'key': [events] of the learning data, joined by ", ".
RECURSIVE items_len(_, _)
items_len(learning_data, keys) ==
    IF keys = {} THEN 0
    ELSE LET k == CHOOSE x \in keys : TRUE
         IN strlen(k) + 4 + 2 + events_len(learning_data[k])
            + (IF keys # {k} THEN 2 ELSE 0)
            + items_len(learning_data, keys \ {k})

\* len(str(profile.learning_data))
repr_len(learning_data) ==
    2 + items_len(learning_data, DOMAIN learning_data)

\* Faulty variant of get_privacy_report: the values of the context maps
\* are reported in place of their keys.
get_privacy_report_with_values(s, user_id) ==
    IF ~has_profile(s, user_id) THEN EmptyMap
    ELSE LET profile == get_user_profile(s, user_id)
         IN [user_id |-> user_id,
             profile_created |-> profile.created_at,
             last_updated |-> profile.updated_at,
             total_interactions |->
                 Len(SelectSeq(s.context_history,
                               LAMBDA rec : rec.user_id = user_id)),
             context_rules |->
                 Len(SelectSeq(s.rules, LAMBDA row : row.user_id = user_id)),
             work_context_keys |->
                 {profile.work_context[k] : k \in DOMAIN profile.work_context},
             personal_context_keys |->
                 {profile.personal_context[k] :
                     k \in DOMAIN profile.personal_context},
             learning_data_size |-> repr_len(profile.learning_data),
             storage_location |-> "context.db"]

\* get_privacy_report: {} without a profile; the lists of keys are
\* reported as the sets of the keys, the path of the database as its
\* file name.
get_privacy_report(s, user_id) ==
    IF ~has_profile(s, user_id) THEN EmptyMap
    ELSE LET profile == get_user_profile(s, user_id)
         IN [user_id |-> user_id,
             profile_created |-> profile.created_at,
             last_updated |-> profile.updated_at,
             total_interactions |->
                 Len(SelectSeq(s.context_history,
                               LAMBDA rec : rec.user_id = user_id)),
             context_rules |->
                 Len(SelectSeq(s.rules, LAMBDA row : row.user_id = user_id)),
             work_context_keys |-> DOMAIN profile.work_context,
             personal_context_keys |-> DOMAIN profile.personal_context,
             learning_data_size |-> repr_len(profile.learning_data),
             storage_location |-> "context.db"]

---------------------------------------------------------------------------
(* ChatInterface *)

\* Keep only recent messages (last 50).
ChatCap == 50

\* start_session: a fresh session is stored under session_id, in place of
\* an active session of that id if there is one.
start_session(sessions, user_id, session_id, now) ==
    [k \in DOMAIN sessions \cup {session_id} |->
        IF k = session_id
        THEN [user_id |-> user_id, session_id |-> session_id,
              started_at |-> now, messages |-> <<>>, context |-> EmptyMap]
        ELSE sessions[k]]

message_data(message, sender, now) ==
    [timestamp |-> now, sender |-> sender, message |-> message]

\* Faulty variant of add_message: a full session keeps its first 50
\* messages.
add_message_keep_first(sessions, session_id, message, sender, now) ==
    LET messages == Append(sessions[session_id].messages,
                           message_data(message, sender, now))
    IN [sessions EXCEPT ![session_id].messages =
           IF Len(messages) > ChatCap
           THEN SubSeq(messages, 1, ChatCap)
           ELSE messages]

\* add_message, on an active session.
add_message(sessions, session_id, message, sender, now) ==
    LET messages == Append(sessions[session_id].messages,
                           message_data(message, sender, now))
    IN [sessions EXCEPT ![session_id].messages =
           IF Len(messages) > ChatCap
           THEN tail_slice(messages, ChatCap)
           ELSE messages]

\* end_session, on an active session: the session as it is archived.
ended_session(session, now) ==
    [user_id |-> session.user_id, session_id |-> session.session_id,
     started_at |-> session.started_at, messages |-> session.messages,
     context |-> session.context, ended_at |-> now]

---------------------------------------------------------------------------
(* PrivacyManager *)

\* create_privacy_settings: the default PrivacySettings of a user.
default_privacy_settings(user_id) ==
    [user_id |-> user_id, data_retention_days |-> 90,
     learning_enabled |-> TRUE, cross_device_sync |-> TRUE,
     voice_data_retention |-> FALSE, location_tracking |-> FALSE,
     contact_access |-> FALSE, calendar_access |-> FALSE,
     message_access |-> FALSE, auto_delete_enabled |-> TRUE,
     encryption_enabled |-> TRUE]

\* _save_privacy_settings: INSERT OR REPLACE of the row of the user.
save_privacy_settings(table, settings) ==
    [u \in DOMAIN table \cup {settings.user_id} |->
        IF u = settings.user_id THEN settings ELSE table[u]]

\* None, where a PrivacySettings or None is returned.
NoSettings == [user_id |-> None]

\* get_privacy_settings
get_privacy_settings(table, user_id) ==
    IF user_id \in DOMAIN table THEN table[user_id] ELSE NoSettings

\* check_data_access_permission
check_data_access_permission(table, user_id, data_type) ==
    LET settings == get_privacy_settings(table, user_id)
    IN IF settings = NoSettings THEN FALSE
       ELSE CASE data_type = "contacts" -> settings.contact_access
              [] data_type = "calendar" -> settings.calendar_access
              [] data_type = "messages" -> settings.message_access
              [] data_type = "location" -> settings.location_tracking
              [] data_type = "voice" -> settings.voice_data_retention
              [] OTHER -> FALSE

---------------------------------------------------------------------------
(* AIEngine *)

\* AIResponse; confidence is counted in tenths (8 is 0.8, 0 is 0.0).
EngineResponse ==
    [text |-> "I'll open spotify and perform that action for you.",
     actions |-> <<[type |-> "mobile_app_action"]>>,
     confidence |-> 8, requires_confirmation |-> FALSE]

\* The response of the except branch of process_user_request.
ErrorResponse ==
    [text |-> "I'm sorry, I encountered an error processing your request. Please try again.",
     actions |-> <<>>, confidence |-> 0, requires_confirmation |-> FALSE]

NoResponse ==
    [text |-> None, actions |-> <<>>, confidence |-> 0,
     requires_confirmation |-> FALSE]

NoRequest ==
    [text |-> None, mode |-> None, context |-> EmptyMap, user_id |-> None,
     timestamp |-> 0, voice_input |-> FALSE]

\* An engine that answers whether or not it has been initialized.
engine_raises_on_fault(init, fault) == fault = "engine"

\* AIEngine.process_request raises RuntimeError before initialize(); an
\* engine fault is any other exception of the reasoning call.
engine_raises(init, fault) == ~init \/ fault = "engine"

---------------------------------------------------------------------------
(* RequestProcessor.process_user_request                                  *)
(* A call is the record of its arguments, of the clock reading and of the *)
(* step (if any) in which the environment raises an exception: a database *)
(* error in a ContextManager call, an error of the engine.  A frame is    *)
(* the state the call has built so far: the store, the history, the steps *)
(* entered, whether an exception is in flight.                            *)

Faults == {"none", "profile", "evaluate", "context", "engine", "learn"}

\* user_id[:8]
prefix8(user_id) ==
    CASE user_id = "user_0123456789" -> "user_012"
      [] OTHER -> user_id

Enter(f, step) == [f EXCEPT !.steps = Append(@, step)]

Raise(f) == [f EXCEPT !.exc = TRUE]

\* Faulty variant of stage_profile: the default profile is created
\* whether the user has a profile or not.
stage_profile_recreate(f, call) ==
    LET g == Enter(f, "PROFILE_RESOLUTION")
    IN IF call.fault = "profile" THEN Raise(g)
       ELSE [g EXCEPT !.s = create_user_profile(g.s, call.user_id,
                 "User_" \o prefix8(call.user_id), EmptyMap, call.now)]

\* Get or create user profile
stage_profile(f, call) ==
    LET g == Enter(f, "PROFILE_RESOLUTION")
    IN IF call.fault = "profile" THEN Raise(g)
       ELSE IF has_profile(g.s, call.user_id) THEN g
       ELSE [g EXCEPT !.s = create_user_profile(g.s, call.user_id,
                 "User_" \o prefix8(call.user_id), EmptyMap, call.now)]

\* Evaluate context switching
stage_auto_switch(f, call) ==
    LET g == Enter(f, "AUTO_SWITCH_EVAL")
        new_mode == evaluate_context_switch(g.s, call.user_id,
                        call.additional_context, call.now)
    IN IF call.fault = "evaluate" THEN Raise(g)
       ELSE IF Truthy(new_mode)
       THEN [g EXCEPT !.s = switch_mode(g.s, call.user_id, new_mode,
                                        "automatic", call.now),
                      !.new_mode = new_mode]
       ELSE [g EXCEPT !.new_mode = new_mode]

\* Faulty variant of stage_context: the mode is keyed per user, it is the
\* mode of the latest transition made on behalf of the caller (personal
\* when there is none).
stage_context_own_mode(f, call) ==
    LET g == Enter(f, "CONTEXT_BUILD")
        own == SelectSeq(g.s.context_history,
                         LAMBDA rec : rec.user_id = call.user_id)
        mode == IF Len(own) = 0 THEN "personal" ELSE own[Len(own)].mode
    IN IF call.fault = "context" THEN Raise(g)
       ELSE IF mode \notin ValidModes THEN Raise(g)
       ELSE [g EXCEPT !.user_context =
                          get_current_context(
                              [g.s EXCEPT !.current_mode = mode],
                              call.user_id),
                      !.current_mode = mode]

\* Faulty variant of stage_context: the context is the personal map
\* whatever the mode.
stage_context_personal_map(f, call) ==
    LET g == Enter(f, "CONTEXT_BUILD")
    IN IF call.fault = "context" THEN Raise(g)
       ELSE IF g.s.current_mode \notin ValidModes THEN Raise(g)
       ELSE [g EXCEPT !.user_context =
                          g.s.profiles[call.user_id].personal_context,
                      !.current_mode = g.s.current_mode]

\* Get current context and mode; ProcessingMode(...) raises ValueError on
\* a string that is no member of the enum.
stage_context(f, call) ==
    LET g == Enter(f, "CONTEXT_BUILD")
    IN IF call.fault = "context" THEN Raise(g)
       ELSE IF g.s.current_mode \notin ValidModes THEN Raise(g)
       ELSE [g EXCEPT !.user_context = get_current_context(g.s, call.user_id),
                      !.current_mode = g.s.current_mode]

\* Build AI request and call the engine: the coroutine is at its await.
send_request(f, call) ==
    [Enter(f, "REASONING_DISPATCH") EXCEPT
        !.dispatched = TRUE,
        !.ai_request =
            [text |-> call.text, mode |-> f.current_mode,
             context |-> f.user_context, user_id |-> call.user_id,
             timestamp |-> call.now, voice_input |-> call.voice_input]]

\* The await ends: the engine has raised or has returned its response.
engine_answer(g, outcome) ==
    IF outcome = "exception" THEN Raise(g)
    ELSE [g EXCEPT !.response = EngineResponse]

\* Faulty variant of stage_dispatch: the history entry is stored when the
\* request is sent, before the engine has answered.
stage_dispatch_logged(f, call) ==
    LET g == send_request(f, call)
    IN engine_answer(
           [g EXCEPT !.request_history =
               Append(@, [timestamp |-> g.ai_request.timestamp,
                          user_id |-> call.user_id, request |-> call.text,
                          response |-> g.response.text,
                          mode |-> g.current_mode,
                          actions |-> g.response.actions])],
           IF engine_raises(call.init, call.fault)
           THEN "exception" ELSE "response")

\* Build AI request, process with AI engine
stage_dispatch(f, call) ==
    engine_answer(send_request(f, call),
                  IF engine_raises(call.init, call.fault)
                  THEN "exception" ELSE "response")

\* Log interaction for learning
stage_learning(f, call) ==
    LET g == Enter(f, "LEARNING_RECORD")
        interaction_data ==
            [request_text |-> call.text, response_text |-> g.response.text,
             actions_count |-> Len(g.response.actions),
             confidence |-> g.response.confidence,
             voice_input |-> call.voice_input]
    IN IF call.fault = "learn" THEN Raise(g)
       ELSE [g EXCEPT !.s = learn_from_interaction(g.s, call.user_id,
                                 interaction_data, call.now)]

\* Store in request history, keep only the last 100 requests
history_entry(f, call) ==
    [timestamp |-> f.ai_request.timestamp, user_id |-> call.user_id,
     request |-> call.text, response |-> f.response.text,
     mode |-> f.current_mode, actions |-> f.response.actions]

\* Faulty variant of append_history: the slice keeps the first 100.
append_history_keep_first(history, entry) ==
    LET h == Append(history, entry)
    IN IF Len(h) > HistoryCap THEN SubSeq(h, 1, HistoryCap) ELSE h

append_history(history, entry) ==
    tail_slice(Append(history, entry), HistoryCap)

\* Faulty variant of stage_history: a request that repeats the latest
\* entry (same user, same text) is not stored again.
stage_history_once(f, call) ==
    LET g == Enter(f, "HISTORY_APPEND")
        h == g.request_history
    IN IF /\ Len(h) > 0
          /\ h[Len(h)].user_id = call.user_id
          /\ h[Len(h)].request = call.text
       THEN g
       ELSE [g EXCEPT !.request_history =
                          append_history(@, history_entry(f, call))]

stage_history(f, call) ==
    [Enter(f, "HISTORY_APPEND") EXCEPT
        !.request_history = append_history(@, history_entry(f, call))]

stage_response(f, call) == Enter(f, "RESPONSE")

\* The frame a call starts with.
frame(s, history) ==
    [s |-> s, request_history |-> history, steps |-> <<>>, exc |-> FALSE,
     new_mode |-> None, user_context |-> EmptyMap, current_mode |-> None,
     dispatched |-> FALSE, ai_request |-> NoRequest, response |-> NoResponse]

\* A statement of the try block runs only while no exception is in flight.
run_step(f, call, step) ==
    IF f.exc THEN f
    ELSE CASE step = "PROFILE_RESOLUTION" -> stage_profile(f, call)
           [] step = "AUTO_SWITCH_EVAL" -> stage_auto_switch(f, call)
           [] step = "CONTEXT_BUILD" -> stage_context(f, call)
           [] step = "REASONING_DISPATCH" -> stage_dispatch(f, call)
           [] step = "LEARNING_RECORD" -> stage_learning(f, call)
           [] step = "HISTORY_APPEND" -> stage_history(f, call)
           [] step = "RESPONSE" -> stage_response(f, call)

\* Faulty variant of try_body: the history entry is stored before the
\* interaction is logged for learning.
try_body_history_first(s, history, call) ==
    LET f1 == run_step(frame(s, history), call, "PROFILE_RESOLUTION")
        f2 == run_step(f1, call, "AUTO_SWITCH_EVAL")
        f3 == run_step(f2, call, "CONTEXT_BUILD")
        f4 == run_step(f3, call, "REASONING_DISPATCH")
        f5 == run_step(f4, call, "HISTORY_APPEND")
        f6 == run_step(f5, call, "LEARNING_RECORD")
    IN run_step(f6, call, "RESPONSE")

\* The body of the try block, in the order of its statements.
try_body(s, history, call) ==
    LET f1 == run_step(frame(s, history), call, "PROFILE_RESOLUTION")
        f2 == run_step(f1, call, "AUTO_SWITCH_EVAL")
        f3 == run_step(f2, call, "CONTEXT_BUILD")
        f4 == run_step(f3, call, "REASONING_DISPATCH")
        f5 == run_step(f4, call, "LEARNING_RECORD")
        f6 == run_step(f5, call, "HISTORY_APPEND")
    IN run_step(f6, call, "RESPONSE")

\* Faulty variant of except_exception: the exception is raised again.
except_reraise(f) == f

\* except Exception: log, return the error response.
except_exception(f) ==
    IF f.exc THEN [f EXCEPT !.exc = FALSE, !.response = ErrorResponse,
                            !.degraded = TRUE]
    ELSE f

process_user_request(s, history, call) ==
    except_exception(
        [degraded |-> FALSE] @@ try_body(s, history, call))

\* The try block up to its await: the statements before the engine call,
\* then, unless one of them raised, the request sent to the engine.
until_await(s, history, call) ==
    LET f1 == run_step(frame(s, history), call, "PROFILE_RESOLUTION")
        f2 == run_step(f1, call, "AUTO_SWITCH_EVAL")
        f3 == run_step(f2, call, "CONTEXT_BUILD")
    IN IF f3.exc THEN f3 ELSE send_request(f3, call)

\* The coroutine resumed after its await, with the locals f it had when
\* it was suspended, on the store and the history as they are now: the
\* statements after the engine call, then the except clause.
after_await(f, s, history, call, outcome) ==
    LET f4 == engine_answer(
                  [f EXCEPT !.s = s, !.request_history = history], outcome)
        f5 == run_step(f4, call, "LEARNING_RECORD")
        f6 == run_step(f5, call, "HISTORY_APPEND")
    IN except_exception(
           [degraded |-> FALSE] @@ run_step(f6, call, "RESPONSE"))

\* Faulty variant of handle_mode_switch: the target is not validated.
handle_mode_switch_unchecked(s, user_id, target_mode, now) ==
    [s |-> switch_mode(s, user_id, target_mode, "manual", now),
     text |-> "switched"]

\* Faulty variant of handle_mode_switch: the transition is logged but the
\* current mode keeps its value.
handle_mode_switch_trail_only(s, user_id, target_mode, now) ==
    IF target_mode \notin ValidModes
    THEN [s |-> s, text |-> "invalid"]
    ELSE [s |-> [switch_mode(s, user_id, target_mode, "manual", now)
                    EXCEPT !.current_mode = s.current_mode],
          text |-> "switched"]

\* handle_mode_switch: the returned text is "invalid" for
\* "Invalid mode '...'. Valid modes are: work, personal, mixed" and
\* "switched" for "Switched to ... mode".
handle_mode_switch(s, user_id, target_mode, now) ==
    IF target_mode \notin ValidModes
    THEN [s |-> s, text |-> "invalid"]
    ELSE [s |-> switch_mode(s, user_id, target_mode, "manual", now),
          text |-> "switched"]

\* handle_mode_switch when the INSERT of switch_mode raises: the except
\* clause returns "error" for "Error switching mode. Please try again.".
handle_mode_switch_insert_fails(s, user_id, target_mode) ==
    IF target_mode \notin ValidModes
    THEN [s |-> s, text |-> "invalid"]
    ELSE [s |-> switch_mode_insert_fails(s, user_id, target_mode),
          text |-> "error"]

\* get_context_summary
get_context_summary(s, history, user_id) ==
    IF ~has_profile(s, user_id)
    THEN [error |-> "User profile not found"]
    ELSE LET profile == s.profiles[user_id]
             recent_requests ==
                 SelectSeq(tail_slice(history, SummaryWindow),
                           LAMBDA req : req.user_id = user_id)
         IN [user_name |-> profile.name,
             current_mode |-> s.current_mode,
             last_updated |-> profile.updated_at,
             recent_requests_count |-> Len(recent_requests),
             work_context_active |-> profile.work_context # EmptyMap,
             personal_context_active |-> profile.personal_context # EmptyMap,
             learning_interactions |->
                 Len(Get(profile.learning_data, "personal_interactions", <<>>)
                     \o Get(profile.learning_data, "work_interactions",
                            <<>>))]

\* get_request_history, for limit >= 0: the entries of the user among
\* history[-limit*2:], then the slice [-limit:] of those.
get_request_history(history, user_id, limit) ==
    LET user_requests ==
            SelectSeq(tail_slice(history, limit * 2),
                      LAMBDA req : req.user_id = user_id)
    IN tail_slice(user_requests, limit)

\* datetime.now().date(), datetime.fromtimestamp(t).date(): the day a
\* clock reading falls on.
date(t) == t \div DayLen

\* counts[key] = counts.get(key, 0) + 1, on a dict: its items are the
\* pairs (key, count), in the order in which the keys were first set.
count_key(counts, key) ==
    IF \E i \in DOMAIN counts : counts[i].key = key
    THEN [i \in DOMAIN counts |->
             IF counts[i].key = key
             THEN [counts[i] EXCEPT !.count = @ + 1]
             ELSE counts[i]]
    ELSE Append(counts, [key |-> key, count |-> 1])

\* The dict of counts built by a loop over the keys.
RECURSIVE count_keys(_)
count_keys(keys) ==
    IF Len(keys) = 0 THEN <<>>
    ELSE count_key(count_keys(SubSeq(keys, 1, Len(keys) - 1)),
                   keys[Len(keys)])

\* action.get("type", "unknown") of every action of every request, in the
\* order of the two nested loops.
RECURSIVE action_types_of(_)
action_types_of(requests) ==
    IF Len(requests) = 0 THEN <<>>
    ELSE [i \in DOMAIN Head(requests).actions |->
             Get(Head(requests).actions[i], "type", "unknown")]
         \o action_types_of(Tail(requests))

\* Faulty variant of max_item: among the items of greatest count, the
\* last one.
max_item_last(items) ==
    items[CHOOSE i \in DOMAIN items :
             /\ \A j \in DOMAIN items : items[j].count <= items[i].count
             /\ \A j \in DOMAIN items :
                    j > i => items[j].count < items[i].count]

\* max(items, key=lambda x: x[1]): among the items of greatest count, the
\* first one in the order of the dict.
max_item(items) ==
    items[CHOOSE i \in DOMAIN items :
             /\ \A j \in DOMAIN items : items[j].count <= items[i].count
             /\ \A j \in DOMAIN items :
                    j < i => items[j].count < items[i].count]

\* _generate_daily_suggestions: "automation" for "You've been quite
\* active today! ...", "shortcuts" for "Consider creating work-specific
\* shortcuts ...".
generate_daily_suggestions(requests) ==
    LET work_requests == SelectSeq(requests, LAMBDA r : r.mode = "work")
    IN (IF Len(requests) > 10 THEN <<"automation">> ELSE <<>>)
       \o (IF Len(work_requests) > 5 THEN <<"shortcuts">> ELSE <<>>)

\* get_daily_summary
get_daily_summary(history, user_id, now) ==
    LET today == date(now)
        today_requests ==
            SelectSeq(history,
                      LAMBDA req : /\ req.user_id = user_id
                                   /\ date(req.timestamp) = today)
        mode_counts ==
            count_keys([i \in DOMAIN today_requests |->
                           today_requests[i].mode])
    IN [date |-> today,
        total_requests |-> Len(today_requests),
        mode_distribution |-> mode_counts,
        action_types |-> count_keys(action_types_of(today_requests)),
        most_active_mode |->
            IF Len(mode_counts) > 0 THEN max_item(mode_counts).key
            ELSE None,
        suggestions |-> generate_daily_suggestions(today_requests)]

\* Faulty variant of clear_user_data: the whole history is dropped.
clear_user_data_all(history, user_id) == <<>>

\* clear_user_data
clear_user_data(history, user_id) ==
    SelectSeq(history, LAMBDA req : req.user_id # user_id)

---------------------------------------------------------------------------
(* Inputs *)

\* The maps update_user_context is called with.
Patches ==
    <<[k1 |-> "a"], [k1 |-> "b", k2 |-> "b"], [k2 |-> "c"]>>

ContextTypes == {"work", "personal", "shared"}

\* ContextRule(name, trigger_type, trigger_value, target_mode, priority,
\* active); times of day are clock ticks, keywords and titles are strings
\* of characters.
RuleCatalogue ==
    <<[name |-> "office", trigger_type |-> "location",
       trigger_value |-> "office", target_mode |-> "work",
       priority |-> 5, active |-> TRUE],
      [name |-> "office_mixed", trigger_type |-> "location",
       trigger_value |-> "office", target_mode |-> "mixed",
       priority |-> 5, active |-> TRUE],
      [name |-> "trip", trigger_type |-> "location",
       trigger_value |-> "home", target_mode |-> "vacation",
       priority |-> 7, active |-> TRUE],
      [name |-> "paused", trigger_type |-> "location",
       trigger_value |-> "office", target_mode |-> "personal",
       priority |-> 9, active |-> FALSE],
      [name |-> "sync", trigger_type |-> "calendar",
       trigger_value |-> <<"s", "y", "n", "c">>, target_mode |-> "work",
       priority |-> 3, active |-> TRUE],
      [name |-> "evening", trigger_type |-> "time",
       trigger_value |-> [start |-> 1, end |-> 2],
       target_mode |-> "personal", priority |-> 1, active |-> TRUE],
      [name |-> "blank", trigger_type |-> "location",
       trigger_value |-> "home", target_mode |-> "",
       priority |-> 8, active |-> TRUE],
      [name |-> "Sync", trigger_type |-> "calendar",
       trigger_value |-> <<"S", "y", "n", "c">>, target_mode |-> "work",
       priority |-> 3, active |-> TRUE],
      [name |-> "instant", trigger_type |-> "time",
       trigger_value |-> [start |-> 1, end |-> 1],
       target_mode |-> "work", priority |-> 2, active |-> TRUE],
      [name |-> "overnight", trigger_type |-> "time",
       trigger_value |-> [start |-> 2, end |-> 1],
       target_mode |-> "personal", priority |-> 2, active |-> TRUE]>>

\* additional_context (None stands for {}: additional_context or {}).
SignalContexts ==
    <<EmptyMap,
      [location |-> "office"],
      [location |-> "home"],
      [calendar_events |-> <<[title |-> <<"S", "y", "n", "c">>]>>],
      [location |-> "office",
       calendar_events |-> <<[title |-> <<"S", "y", "n", "c">>]>>],
      [calendar_events |-> <<[note |-> "untitled"],
                             [title |-> <<"a", "s", "y", "n", "c">>]>>],
      [calendar_events |-> <<[title |-> <<"s", "y", "n">>]>>]>>

---------------------------------------------------------------------------
(* Bounds of the exploration *)

\* Rows of context_rules.
MaxRules == 3

\* Clock readings explored by the specification of the context maps.
MaxCtxClock == 4

\* Clock readings explored by the specification of the rule engine.
MaxRulesClock == 2

\* Clock readings explored by the full specification.
MaxClock == 2

\* Requests explored by the specification of the bounded history.
MaxRequests == 150

\* Clock readings explored by the specification of the mode sessions.
MaxModeClock == 5

\* Clock readings explored by the specification of the rule matching.
MaxMatchClock == 5

\* Clock readings explored by the specification of the history sessions.
MaxSessionClock == 4

\* The largest limit get_request_history is called with.
MaxLimit == 2

\* Requests explored by the specification of the learning buckets.
MaxEvents == 1002

\* Concurrent tasks explored by the specification of the event loop.
MaxTasks == 2

\* Clock readings explored by the specification of the profiles.
MaxProfileClock == 4

\* Clock readings explored by the specification of the enrolments.
MaxEnrolClock == 4

\* Clock readings explored by the specification of the privacy settings.
MaxPrivacyClock == 3

\* Clock readings explored by the specification of the chat sessions.
MaxChatClock == 56

\* Clock readings explored by the specification of the read operations.
MaxReadClock == 3

\* Clock readings explored by the specification of the transition trail.
MaxTrailClock == 4

\* Clock readings explored by the specification of the daily summaries.
MaxDailyClock == 7

\* Clock readings at which the event loop starts a task or a mode switch.
MaxAsyncClock == 3

\* Clock readings explored by the specification of the concurrent
\* requests of a user with context maps.
MaxAsyncCtxClock == 5

---------------------------------------------------------------------------
(* State after construction: ContextManager.__init__ on a fresh data      *)
(* directory, RequestProcessor.__init__, AIEngine.__init__.               *)

Init ==
    /\ profiles = EmptyMap
    /\ rules = <<>>
    /\ context_history = <<>>
    /\ current_mode = "personal"
    /\ current_user_id = None
    /\ request_history = <<>>
    /\ initialized = FALSE
    /\ clock = 0
    /\ ret = [op |-> "init"]
    /\ served = <<>>
    /\ cleared = FALSE
    /\ tasks = <<>>
    /\ privacy_settings = EmptyMap
    /\ active_sessions = EmptyMap
    /\ conversation_history = <<>>

\* The store s written back to the variables of the ContextManager.
SetStore(s) ==
    /\ profiles' = s.profiles
    /\ rules' = s.rules
    /\ context_history' = s.context_history
    /\ current_mode' = s.current_mode
    /\ current_user_id' = s.current_user_id

StoreUnchanged ==
    UNCHANGED <<profiles, rules, context_history, current_mode,
                current_user_id>>

---------------------------------------------------------------------------
(* Operations *)

\* AIEngine.initialize
Initialize ==
    /\ initialized' = TRUE
    /\ ret' = [op |-> "initialize", value |-> TRUE]
    /\ StoreUnchanged
    /\ UNCHANGED <<request_history, clock, served, cleared, tasks,
                   privacy_settings, active_sessions, conversation_history>>

\* Time passes between two calls.
Tick ==
    /\ clock' = clock + 1
    /\ ret' = [op |-> "tick"]
    /\ StoreUnchanged
    /\ UNCHANGED <<request_history, initialized, served, cleared, tasks,
                   privacy_settings, active_sessions, conversation_history>>

\* Faulty variant of CreateUserProfile: INSERT OR REPLACE, the row of a
\* user that has one is written again.
CreateUserProfileOrReplace(user_id, name) ==
    /\ SetStore(create_user_profile(Store, user_id, name, EmptyMap, clock))
    /\ ret' = [op |-> "create_user_profile", user_id |-> user_id,
               name |-> name, exc |-> FALSE]
    /\ clock' = clock + 1
    /\ UNCHANGED <<request_history, initialized, served, cleared, tasks,
                   privacy_settings, active_sessions, conversation_history>>

\* ContextManager.create_user_profile, called directly: sqlite3's
\* IntegrityError leaves the method when the user_id has a row.
CreateUserProfile(user_id, name) ==
    /\ IF has_profile(Store, user_id)
       THEN /\ StoreUnchanged
            /\ ret' = [op |-> "create_user_profile", user_id |-> user_id,
                       name |-> name, exc |-> TRUE]
       ELSE /\ SetStore(create_user_profile(Store, user_id, name, EmptyMap,
                                            clock))
            /\ ret' = [op |-> "create_user_profile", user_id |-> user_id,
                       name |-> name, exc |-> FALSE]
    /\ clock' = clock + 1
    /\ UNCHANGED <<request_history, initialized, served, cleared, tasks,
                   privacy_settings, active_sessions, conversation_history>>

\* An update_user_context that enrols the missing user before it raises.
UpdateUserContextEnrolling(user_id, context_type, updates) ==
    /\ \E error \in {update_user_context_error(Store, user_id,
                                               context_type)} :
          /\ IF error = "User profile not found"
             THEN SetStore(create_user_profile(Store, user_id, user_id,
                                               EmptyMap, clock))
             ELSE IF error # None
                  THEN StoreUnchanged
                  ELSE SetStore(update_user_context(Store, user_id,
                                                    context_type, updates,
                                                    clock))
          /\ ret' = [op |-> "update_user_context", user_id |-> user_id,
                     context_type |-> context_type, updates |-> updates,
                     exc |-> error # None, error |-> error]
    /\ clock' = clock + 1
    /\ UNCHANGED <<request_history, initialized, served, cleared, tasks,
                   privacy_settings, active_sessions, conversation_history>>

\* ContextManager.update_user_context: ValueError when the profile is
\* missing or the context type is neither work nor personal.
UpdateUserContext(user_id, context_type, updates) ==
    /\ \E error \in {update_user_context_error(Store, user_id,
                                               context_type)} :
          /\ IF error # None
             THEN StoreUnchanged
             ELSE SetStore(update_user_context(Store, user_id, context_type,
                                               updates, clock))
          /\ ret' = [op |-> "update_user_context", user_id |-> user_id,
                     context_type |-> context_type, updates |-> updates,
                     exc |-> error # None, error |-> error]
    /\ clock' = clock + 1
    /\ UNCHANGED <<request_history, initialized, served, cleared, tasks,
                   privacy_settings, active_sessions, conversation_history>>

\* ContextManager.get_user_profile, called directly.
GetUserProfile(user_id) ==
    /\ ret' = [op |-> "get_user_profile", user_id |-> user_id,
               exc |-> FALSE, value |-> get_user_profile(Store, user_id)]
    /\ StoreUnchanged
    /\ UNCHANGED <<request_history, initialized, clock, served, cleared,
                   tasks, privacy_settings, active_sessions,
                   conversation_history>>

\* ContextManager.get_privacy_report
GetPrivacyReport(user_id) ==
    /\ ret' = [op |-> "get_privacy_report", user_id |-> user_id,
               value |-> get_privacy_report(Store, user_id)]
    /\ StoreUnchanged
    /\ UNCHANGED <<request_history, initialized, clock, served, cleared,
                   tasks, privacy_settings, active_sessions,
                   conversation_history>>

\* PrivacyManager.create_privacy_settings
CreatePrivacySettings(user_id) ==
    /\ privacy_settings' =
           save_privacy_settings(privacy_settings,
                                 default_privacy_settings(user_id))
    /\ ret' = [op |-> "create_privacy_settings", user_id |-> user_id]
    /\ StoreUnchanged
    /\ UNCHANGED <<request_history, initialized, clock, served, cleared,
                   tasks, active_sessions, conversation_history>>

\* PrivacyManager.update_privacy_settings
UpdatePrivacySettings(settings) ==
    /\ privacy_settings' = save_privacy_settings(privacy_settings, settings)
    /\ ret' = [op |-> "update_privacy_settings",
               user_id |-> settings.user_id, value |-> TRUE]
    /\ StoreUnchanged
    /\ UNCHANGED <<request_history, initialized, clock, served, cleared,
                   tasks, active_sessions, conversation_history>>

\* ContextManager.add_context_rule
AddContextRule(user_id, rule) ==
    /\ Len(rules) < MaxRules
    /\ SetStore(add_context_rule(Store, user_id, rule))
    /\ ret' = [op |-> "add_context_rule", user_id |-> user_id]
    /\ UNCHANGED <<request_history, initialized, clock, served, cleared,
                   tasks, privacy_settings, active_sessions,
                   conversation_history>>

\* ContextManager.evaluate_context_switch, called directly.
EvaluateContextSwitch(user_id, context) ==
    /\ ret' = [op |-> "evaluate_context_switch", user_id |-> user_id,
               context |-> context, now |-> clock,
               value |-> evaluate_context_switch(Store, user_id, context,
                                                 clock)]
    /\ StoreUnchanged
    /\ UNCHANGED <<request_history, initialized, clock, served, cleared,
                   tasks, privacy_settings, active_sessions,
                   conversation_history>>

\* ContextManager._rule_matches, called on one rule.
RuleMatches(rule, context) ==
    /\ ret' = [op |-> "_rule_matches", rule |-> rule, context |-> context,
               now |-> clock, value |-> rule_matches(rule, context, clock)]
    /\ StoreUnchanged
    /\ UNCHANGED <<request_history, initialized, clock, served, cleared,
                   tasks, privacy_settings, active_sessions,
                   conversation_history>>

\* ContextManager.get_current_context, called directly.
GetCurrentContext(user_id) ==
    /\ ret' = [op |-> "get_current_context", user_id |-> user_id,
               value |-> get_current_context(Store, user_id)]
    /\ StoreUnchanged
    /\ UNCHANGED <<request_history, initialized, clock, served, cleared,
                   tasks, privacy_settings, active_sessions,
                   conversation_history>>

\* ContextManager.switch_mode, called directly (test_basic.py, demo.py).
SwitchMode(user_id, new_mode, reason) ==
    /\ SetStore(switch_mode(Store, user_id, new_mode, reason, clock))
    /\ ret' = [op |-> "switch_mode", user_id |-> user_id,
               new_mode |-> new_mode, reason |-> reason]
    /\ clock' = clock + 1
    /\ UNCHANGED <<request_history, initialized, served, cleared, tasks,
                   privacy_settings, active_sessions, conversation_history>>

\* RequestProcessor.handle_mode_switch
HandleModeSwitch(user_id, target_mode) ==
    \E r \in {handle_mode_switch(Store, user_id, target_mode, clock)} :
       /\ SetStore(r.s)
       /\ ret' = [op |-> "handle_mode_switch", user_id |-> user_id,
                  target_mode |-> target_mode, exc |-> FALSE,
                  value |-> r.text]
       /\ clock' = clock + 1
       /\ UNCHANGED <<request_history, initialized, served, cleared, tasks,
                      privacy_settings, active_sessions,
                      conversation_history>>

\* RequestProcessor.handle_mode_switch, the database refusing the INSERT
\* of switch_mode.
HandleModeSwitchInsertFails(user_id, target_mode) ==
    \E r \in {handle_mode_switch_insert_fails(Store, user_id, target_mode)} :
       /\ SetStore(r.s)
       /\ ret' = [op |-> "handle_mode_switch", user_id |-> user_id,
                  target_mode |-> target_mode, exc |-> FALSE,
                  value |-> r.text]
       /\ clock' = clock + 1
       /\ UNCHANGED <<request_history, initialized, served, cleared, tasks,
                      privacy_settings, active_sessions,
                      conversation_history>>

\* RequestProcessor.process_user_request, the engine answering at its
\* call as the engine of engine.py does (none of its coroutines suspends):
\* the coroutine runs from its first statement to its return without
\* another handler in between.  BeginRequest, EngineAnswers and
\* ResumeRequest are the same handler with an engine that takes time.
ProcessUserRequest(user_id, text, voice_input, additional_context, fault) ==
    LET call == [user_id |-> user_id, text |-> text,
                 voice_input |-> voice_input,
                 additional_context |-> additional_context,
                 fault |-> fault, now |-> clock, init |-> initialized]
    IN \E r \in {process_user_request(Store, request_history, call)} :
       /\ SetStore(r.s)
       /\ request_history' = r.request_history
       /\ served' = IF "HISTORY_APPEND" \in {r.steps[i] : i \in DOMAIN r.steps}
                    THEN Append(served, history_entry(r, call))
                    ELSE served
       /\ ret' = [op |-> "process_user_request", user_id |-> user_id,
                  fault |-> fault, exc |-> r.exc, degraded |-> r.degraded,
                  response |-> r.response, steps |-> r.steps,
                  new_mode |-> r.new_mode, dispatched |-> r.dispatched,
                  ai_request |-> r.ai_request, call |-> call]
       /\ clock' = clock + 1
       /\ UNCHANGED <<initialized, cleared, tasks, privacy_settings,
                      active_sessions, conversation_history>>

\* Faulty variant of ClearUserData: the transition records of the user
\* are deleted as well.
ClearUserDataWithTrail(user_id) ==
    /\ request_history' = clear_user_data(request_history, user_id)
    /\ context_history' =
           SelectSeq(context_history, LAMBDA rec : rec.user_id # user_id)
    /\ cleared' = TRUE
    /\ ret' = [op |-> "clear_user_data", user_id |-> user_id,
               value |-> TRUE]
    /\ UNCHANGED <<profiles, rules, current_mode, current_user_id,
                   initialized, clock, served, tasks, privacy_settings,
                   active_sessions, conversation_history>>

\* RequestProcessor.clear_user_data
ClearUserData(user_id) ==
    /\ request_history' = clear_user_data(request_history, user_id)
    /\ cleared' = TRUE
    /\ ret' = [op |-> "clear_user_data", user_id |-> user_id,
               value |-> TRUE]
    /\ StoreUnchanged
    /\ UNCHANGED <<initialized, clock, served, tasks, privacy_settings,
                   active_sessions, conversation_history>>

\* RequestProcessor.get_request_history
GetRequestHistory(user_id, limit) ==
    /\ ret' = [op |-> "get_request_history", user_id |-> user_id,
               limit |-> limit,
               value |-> get_request_history(request_history, user_id,
                                             limit)]
    /\ StoreUnchanged
    /\ UNCHANGED <<request_history, initialized, clock, served, cleared,
                   tasks, privacy_settings, active_sessions,
                   conversation_history>>

\* A get_context_summary that stamps the profile it has read.
GetContextSummaryStamping(user_id) ==
    /\ ret' = [op |-> "get_context_summary", user_id |-> user_id,
               value |-> get_context_summary(Store, request_history,
                                             user_id)]
    /\ SetStore(IF has_profile(Store, user_id)
                THEN [Store EXCEPT !.profiles[user_id].updated_at = clock + 1]
                ELSE Store)
    /\ UNCHANGED <<request_history, initialized, clock, served, cleared,
                   tasks, privacy_settings, active_sessions,
                   conversation_history>>

\* RequestProcessor.get_context_summary
GetContextSummary(user_id) ==
    /\ ret' = [op |-> "get_context_summary", user_id |-> user_id,
               value |-> get_context_summary(Store, request_history,
                                             user_id)]
    /\ StoreUnchanged
    /\ UNCHANGED <<request_history, initialized, clock, served, cleared,
                   tasks, privacy_settings, active_sessions,
                   conversation_history>>

\* RequestProcessor.get_daily_summary
GetDailySummary(user_id) ==
    /\ ret' = [op |-> "get_daily_summary", user_id |-> user_id,
               now |-> clock,
               value |-> get_daily_summary(request_history, user_id, clock)]
    /\ StoreUnchanged
    /\ UNCHANGED <<request_history, initialized, clock, served, cleared,
                   tasks, privacy_settings, active_sessions,
                   conversation_history>>

\* The value process_user_request returns, as the caller sees it.
returned(r, call, task) ==
    [op |-> "process_user_request", user_id |-> call.user_id,
     fault |-> call.fault, exc |-> r.exc, degraded |-> r.degraded,
     response |-> r.response, steps |-> r.steps, new_mode |-> r.new_mode,
     dispatched |-> r.dispatched, ai_request |-> r.ai_request,
     call |-> call, task |-> task]

\* ChatInterface.start_session
StartSession(user_id, session_id) ==
    /\ active_sessions' = start_session(active_sessions, user_id,
                                        session_id, clock)
    /\ ret' = [op |-> "start_session", user_id |-> user_id,
               session_id |-> session_id,
               value |-> active_sessions'[session_id]]
    /\ clock' = clock + 1
    /\ StoreUnchanged
    /\ UNCHANGED <<request_history, initialized, served, cleared, tasks,
                   privacy_settings, conversation_history>>

\* ChatInterface.add_message
AddMessage(session_id, message, sender) ==
    /\ IF session_id \notin DOMAIN active_sessions
       THEN /\ ret' = [op |-> "add_message", session_id |-> session_id,
                       message |-> message, sender |-> sender,
                       now |-> clock, value |-> FALSE]
            /\ UNCHANGED active_sessions
       ELSE /\ active_sessions' = add_message(active_sessions, session_id,
                                              message, sender, clock)
            /\ ret' = [op |-> "add_message", session_id |-> session_id,
                       message |-> message, sender |-> sender,
                       now |-> clock, value |-> TRUE]
    /\ clock' = clock + 1
    /\ StoreUnchanged
    /\ UNCHANGED <<request_history, initialized, served, cleared, tasks,
                   privacy_settings, conversation_history>>

\* ChatInterface.end_session
EndSession(session_id) ==
    /\ IF session_id \in DOMAIN active_sessions
       THEN /\ conversation_history' =
                   Append(conversation_history,
                          ended_session(active_sessions[session_id], clock))
            /\ active_sessions' =
                   [k \in DOMAIN active_sessions \ {session_id} |->
                       active_sessions[k]]
            /\ ret' = [op |-> "end_session", session_id |-> session_id,
                       value |-> TRUE]
       ELSE /\ ret' = [op |-> "end_session", session_id |-> session_id,
                       value |-> FALSE]
            /\ UNCHANGED <<active_sessions, conversation_history>>
    /\ clock' = clock + 1
    /\ StoreUnchanged
    /\ UNCHANGED <<request_history, initialized, served, cleared, tasks,
                   privacy_settings>>

\* The event loop starts process_user_request as a task (a /chat request,
\* a websocket message, a message callback) and runs it to its await of
\* the engine.  The engine is the collaborator that runs the local LLM:
\* the coroutine stays suspended at the await until the engine answers.
\* A call that raises before the await, or whose engine raises at once
\* because it is not initialized, returns in the same step.
BeginRequest(user_id, text, voice_input, additional_context) ==
    LET call == [user_id |-> user_id, text |-> text,
                 voice_input |-> voice_input,
                 additional_context |-> additional_context,
                 fault |-> "none", now |-> clock, init |-> initialized]
        task == Len(tasks) + 1
    IN \E g \in {until_await(Store, request_history, call)} :
       /\ IF g.exc \/ ~initialized
          THEN \E r \in {process_user_request(Store, request_history,
                                               call)} :
                  /\ SetStore(r.s)
                  /\ tasks' = Append(tasks,
                         [state |-> "returned", call |-> call, frame |-> g,
                          outcome |-> None])
                  /\ ret' = returned(r, call, task)
          ELSE /\ SetStore(g.s)
               /\ tasks' = Append(tasks,
                      [state |-> "waiting", call |-> call, frame |-> g,
                       outcome |-> None])
               /\ ret' = [op |-> "process_user_request_suspended",
                          user_id |-> user_id, task |-> task]
       /\ clock' = clock + 1
       /\ UNCHANGED <<request_history, initialized, served, cleared,
                      privacy_settings, active_sessions,
                      conversation_history>>

\* The engine call of a suspended task ends: AIEngine.process_request
\* returns its response or raises.
EngineAnswers(task, outcome) ==
    /\ task \in DOMAIN tasks
    /\ tasks[task].state = "waiting"
    /\ tasks' = [tasks EXCEPT ![task].state = "answered",
                              ![task].outcome = outcome]
    /\ ret' = [op |-> "engine_answer", task |-> task, outcome |-> outcome]
    /\ StoreUnchanged
    /\ UNCHANGED <<request_history, initialized, clock, served, cleared,
                   privacy_settings, active_sessions, conversation_history>>

\* The event loop resumes a task whose engine call has ended: the rest of
\* process_user_request runs to its return.
ResumeRequest(task) ==
    /\ task \in DOMAIN tasks
    /\ tasks[task].state = "answered"
    /\ LET call == [tasks[task].call EXCEPT !.now = clock]
       IN \E r \in {after_await(tasks[task].frame, Store, request_history,
                                call, tasks[task].outcome)} :
          /\ SetStore(r.s)
          /\ request_history' = r.request_history
          /\ served' = IF r.degraded THEN served
                       ELSE Append(served, history_entry(r, call))
          /\ ret' = returned(r, call, task)
    /\ tasks' = [tasks EXCEPT ![task].state = "returned"]
    /\ clock' = clock + 1
    /\ UNCHANGED <<initialized, cleared, privacy_settings, active_sessions,
                   conversation_history>>

---------------------------------------------------------------------------
(* Specifications *)

\* The context maps and the mode: one user's profile, its two maps, the
\* mode switched freely, get_current_context read at any time.
NextCtx ==
    \/ /\ clock < MaxCtxClock
       /\ CreateUserProfile("u1", "Alice")
    \/ /\ clock < MaxCtxClock
       /\ \E ct \in {"work", "personal"} : \E i \in DOMAIN Patches :
              UpdateUserContext("u1", ct, Patches[i])
    \/ /\ clock < MaxCtxClock
       /\ \E m \in ModeStrings : SwitchMode("u1", m, "test")
    \/ GetCurrentContext("u1")

SpecCtx == Init /\ [][NextCtx]_vars

\* The rule engine: rules added in any order, evaluated at any time of day
\* against any signal.
RulesOf(user_id) ==
    IF user_id = "u1" THEN {1, 2, 3, 4, 5, 6} ELSE {1, 3}

NextRules ==
    \/ \E u \in Users : \E i \in RulesOf(u) :
           AddContextRule(u, RuleCatalogue[i])
    \/ /\ clock < MaxRulesClock
       /\ Tick
    \/ \E u \in Users : \E j \in DOMAIN SignalContexts :
           EvaluateContextSwitch(u, SignalContexts[j])

SpecRules == Init /\ [][NextRules]_vars

\* Rule matching: any rule of the catalogue against any signal, at any
\* time of day.
NextMatch ==
    \/ /\ clock < MaxMatchClock
       /\ Tick
    \/ \E i \in DOMAIN RuleCatalogue : \E j \in DOMAIN SignalContexts :
           RuleMatches(RuleCatalogue[i], SignalContexts[j])

SpecMatch == Init /\ [][NextMatch]_vars

\* The bounded history: the engine is initialized at start-up, "u1" sends
\* requests one after the other; a second user's requests, an engine fault
\* and clear_user_data happen at the clock readings listed.
InitializeTimes == {0}

ForeignTimes == {5, 120}

FaultTimes == {101}

ClearTimes == {110}

NextHist ==
    \/ /\ clock \in InitializeTimes
       /\ Initialize
    \/ /\ clock < MaxRequests
       /\ ProcessUserRequest("u1", "hi", FALSE, EmptyMap, "none")
    \/ /\ clock < MaxRequests
       /\ clock \in ForeignTimes
       /\ ProcessUserRequest("u2", "hi", FALSE, EmptyMap, "none")
    \/ /\ clock < MaxRequests
       /\ clock \in FaultTimes
       /\ ProcessUserRequest("u1", "hi", FALSE, EmptyMap, "engine")
    \/ /\ clock \in ClearTimes
       /\ \E u \in Users : ClearUserData(u)

SpecHist == Init /\ [][NextHist]_vars

\* Mode sessions: "u1" is enrolled and its context maps are filled at the
\* clock readings listed, then the two users switch the mode and send
\* requests in any order; "u1" may own the rule "office".
EnrolTimes == {0}

PatchTimes == {1}

NextMode ==
    \/ /\ clock \in InitializeTimes
       /\ Initialize
    \/ /\ clock \in EnrolTimes
       /\ CreateUserProfile("u1", "Alice")
    \/ /\ clock \in PatchTimes
       /\ \/ UpdateUserContext("u1", "work", Patches[1])
          \/ UpdateUserContext("u1", "personal", Patches[3])
    \/ /\ rules = <<>>
       /\ AddContextRule("u1", RuleCatalogue[1])
    \/ /\ clock < MaxModeClock
       /\ \/ \E m \in {"work", "mixed"} : HandleModeSwitch("u1", m)
          \/ HandleModeSwitch("u2", "work")
    \/ /\ clock < MaxModeClock
       /\ SwitchMode("u2", "vacation", "test")
    \/ /\ clock < MaxModeClock
       /\ \E j \in {1, 2} :
              ProcessUserRequest("u1", "hi", FALSE, SignalContexts[j], "none")
    \/ /\ clock < MaxModeClock
       /\ ProcessUserRequest("u2", "hi", FALSE, EmptyMap, "none")

SpecMode == Init /\ [][NextMode]_vars

\* History sessions: the two users send requests in any order, "u1" may
\* switch to work and own the rule "office"; the history is read and
\* cleared at any time.
NextSession ==
    \/ /\ clock \in InitializeTimes
       /\ Initialize
    \/ /\ rules = <<>>
       /\ AddContextRule("u1", RuleCatalogue[1])
    \/ /\ clock < MaxSessionClock
       /\ context_history = <<>>
       /\ HandleModeSwitch("u1", "work")
    \/ /\ clock < MaxSessionClock
       /\ \E u \in Users :
              ProcessUserRequest(u, "hi", FALSE, EmptyMap, "none")
    \/ \E u \in Users : \E limit \in 0..MaxLimit :
           GetRequestHistory(u, limit)
    \/ \E u \in Users : ClearUserData(u)

SpecSession == Init /\ [][NextSession]_vars

\* The learning buckets: the engine is initialized at start-up or never,
\* "u1" sends requests one after the other and may switch to work at the
\* clock readings listed.
LearnSwitchTimes == {2}

NextLearn ==
    \/ /\ clock \in InitializeTimes
       /\ Initialize
    \/ /\ clock < MaxEvents
       /\ ProcessUserRequest("u1", "hi", FALSE, EmptyMap, "none")
    \/ /\ clock \in LearnSwitchTimes
       /\ HandleModeSwitch("u1", "work")

SpecLearn == Init /\ [][NextLearn]_vars

\* Profiles: the users are enrolled explicitly or by their first request,
\* whose profile lookup may fail; "u1" fills its context maps and
\* switches to work; profiles and privacy reports are read at any time.
ProfileUsers == {"u1", "user_0123456789"}

NextProfile ==
    \/ /\ clock \in InitializeTimes
       /\ Initialize
    \/ /\ clock < MaxProfileClock
       /\ \E u \in ProfileUsers : \E name \in {"Alice", "Bob"} :
              CreateUserProfile(u, name)
    \/ /\ clock < MaxProfileClock
       /\ \E ct \in ContextTypes : \E i \in DOMAIN Patches :
              UpdateUserContext("u1", ct, Patches[i])
    \/ /\ clock < MaxProfileClock
       /\ \E u \in ProfileUsers : \E fault \in {"none", "profile"} :
              ProcessUserRequest(u, "hi", FALSE, EmptyMap, fault)
    \/ /\ clock < MaxProfileClock
       /\ HandleModeSwitch("u1", "work")
    \/ \E u \in ProfileUsers : GetUserProfile(u)
    \/ \E u \in ProfileUsers : GetPrivacyReport(u)

SpecProfile == Init /\ [][NextProfile]_vars

\* Daily summaries: "u1" sends requests over two days, may own the rule
\* "office" from the start and switch back to personal; "u2" sends
\* requests and nothing happens at the clock readings listed; the summary
\* is read at any time.
DailyForeignTimes == {1, 5}

DailyIdleTimes == {0, 2}

NextDaily ==
    \/ /\ clock \in InitializeTimes
       /\ Initialize
    \/ /\ rules = <<>>
       /\ clock \in InitializeTimes
       /\ AddContextRule("u1", RuleCatalogue[1])
    \/ /\ clock < MaxDailyClock
       /\ \E j \in {1, 2} :
              ProcessUserRequest("u1", "hi", FALSE, SignalContexts[j], "none")
    \/ /\ clock < MaxDailyClock
       /\ clock \in DailyForeignTimes
       /\ ProcessUserRequest("u2", "hi", FALSE, EmptyMap, "none")
    \/ /\ clock < MaxDailyClock
       /\ HandleModeSwitch("u1", "personal")
    \/ /\ clock < MaxDailyClock
       /\ clock \in DailyIdleTimes
       /\ Tick
    \/ \E u \in Users : GetDailySummary(u)

SpecDaily == Init /\ [][NextDaily]_vars

\* The event loop of the server: requests and mode switches of the two
\* users arrive at any time, each request is a task that is suspended
\* while the engine works on it.
NextAsync ==
    \/ /\ clock \in InitializeTimes
       /\ Initialize
    \/ /\ clock < MaxAsyncClock
       /\ Len(tasks) < MaxTasks
       /\ \E u \in Users : BeginRequest(u, "hi", FALSE, EmptyMap)
    \/ \E i \in 1..MaxTasks : \E outcome \in {"response", "exception"} :
           EngineAnswers(i, outcome)
    \/ \E i \in 1..MaxTasks : ResumeRequest(i)
    \/ /\ clock < MaxAsyncClock
       /\ \E u \in Users : \E m \in {"work", "mixed"} :
              HandleModeSwitch(u, m)

SpecAsync == Init /\ [][NextAsync]_vars

\* The event loop resumes a task once its engine call has ended.  The
\* engine is under no obligation to answer.
SpecAsyncFair ==
    SpecAsync /\ WF_vars(\E i \in 1..MaxTasks : ResumeRequest(i))

\* Enrolments: the users are enrolled explicitly or by their first
\* requests, which run as concurrent tasks; "u1" fills its work context.
NextEnrol ==
    \/ /\ clock \in InitializeTimes
       /\ Initialize
    \/ /\ clock < MaxEnrolClock
       /\ \E u \in Users : \E name \in {"Alice", "Bob"} :
              CreateUserProfile(u, name)
    \/ /\ clock < MaxEnrolClock
       /\ UpdateUserContext("u1", "work", Patches[1])
    \/ /\ clock < MaxEnrolClock
       /\ Len(tasks) < MaxTasks
       /\ \E u \in Users : BeginRequest(u, "hi", FALSE, EmptyMap)
    \/ \E i \in 1..MaxTasks : EngineAnswers(i, "response")
    \/ \E i \in 1..MaxTasks : ResumeRequest(i)

SpecEnrol == Init /\ [][NextEnrol]_vars

\* Privacy settings: "u1" gets the default settings, grants or denies
\* location tracking and calendar access, owns the rules "office" and
\* "sync", and sends requests that carry a location or calendar events.
PrivacyRules == {1, 5}

PrivacySignals == {1, 2, 6}

NextPrivacy ==
    \/ CreatePrivacySettings("u1")
    \/ \E location, calendar \in BOOLEAN :
           UpdatePrivacySettings(
               [default_privacy_settings("u1") EXCEPT
                   !.location_tracking = location,
                   !.calendar_access = calendar])
    \/ \E i \in PrivacyRules :
           /\ \A k \in DOMAIN rules : rules[k].name # RuleCatalogue[i].name
           /\ AddContextRule("u1", RuleCatalogue[i])
    \/ /\ clock < MaxPrivacyClock
       /\ \E j \in PrivacySignals :
              ProcessUserRequest("u1", "hi", FALSE, SignalContexts[j], "none")
    \/ /\ clock < MaxPrivacyClock
       /\ HandleModeSwitch("u1", "personal")

SpecPrivacy == Init /\ [][NextPrivacy]_vars

\* The event loop, with context maps: "u1" is enrolled and fills its two
\* maps at the clock readings listed, then requests of "u1" run as
\* concurrent tasks while the two users switch the mode.
WorkPatchTimes == {1}

PersonalPatchTimes == {2}

NextAsyncCtx ==
    \/ /\ clock \in InitializeTimes
       /\ Initialize
    \/ /\ clock \in EnrolTimes
       /\ CreateUserProfile("u1", "Alice")
    \/ /\ clock \in WorkPatchTimes
       /\ UpdateUserContext("u1", "work", Patches[2])
    \/ /\ clock \in PersonalPatchTimes
       /\ UpdateUserContext("u1", "personal", Patches[3])
    \/ /\ clock < MaxAsyncCtxClock
       /\ Len(tasks) < MaxTasks
       /\ BeginRequest("u1", "hi", FALSE, EmptyMap)
    \/ \E i \in 1..MaxTasks : EngineAnswers(i, "response")
    \/ \E i \in 1..MaxTasks : ResumeRequest(i)
    \/ /\ clock < MaxAsyncCtxClock
       /\ \E u \in Users : \E m \in {"work", "mixed"} :
              HandleModeSwitch(u, m)

SpecAsyncCtx == Init /\ [][NextAsyncCtx]_vars

\* The transition trail: the two users switch the mode by hand, "u1"
\* also through its rule "office"; the database may refuse the INSERT of
\* a switch.
NextTrail ==
    \/ /\ clock \in InitializeTimes
       /\ Initialize
    \/ /\ rules = <<>>
       /\ AddContextRule("u1", RuleCatalogue[1])
    \/ /\ clock < MaxTrailClock
       /\ \E u \in Users : \E m \in ValidModes \cup {"vacation"} :
              HandleModeSwitch(u, m)
    \/ /\ clock < MaxTrailClock
       /\ \E m \in ValidModes : HandleModeSwitchInsertFails("u1", m)
    \/ /\ clock < MaxTrailClock
       /\ \E j \in {1, 2} :
              ProcessUserRequest("u1", "hi", FALSE, SignalContexts[j], "none")

SpecTrail == Init /\ [][NextTrail]_vars

\* The read operations: "u1" fills its work context, the users send
\* requests and switch the mode, and every read operation is called for
\* either user at any time.
NextRead ==
    \/ /\ clock \in InitializeTimes
       /\ Initialize
    \/ /\ rules = <<>>
       /\ AddContextRule("u1", RuleCatalogue[1])
    \/ /\ clock < MaxReadClock
       /\ UpdateUserContext("u1", "work", Patches[1])
    \/ /\ clock < MaxReadClock
       /\ \E u \in Users : \E j \in {1, 2} :
              ProcessUserRequest(u, "hi", FALSE, SignalContexts[j], "none")
    \/ /\ clock < MaxReadClock
       /\ HandleModeSwitch("u1", "mixed")
    \/ \E u \in Users : \E j \in {1, 2} :
           EvaluateContextSwitch(u, SignalContexts[j])
    \/ \E u \in Users : GetCurrentContext(u)
    \/ \E u \in Users : GetContextSummary(u)
    \/ \E u \in Users : GetDailySummary(u)
    \/ \E u \in Users : GetRequestHistory(u, 1)
    \/ \E u \in Users : GetPrivacyReport(u)

SpecRead == Init /\ [][NextRead]_vars

\* Chat sessions: "u1" opens the sessions "s1" and "s2" early, every
\* session opens with "Hello", "s1" then carries a long conversation;
\* the other sessions, the unknown "s3" included, get messages and the
\* sessions are ended at the clock readings listed.
ChatStartTimes == {0, 1}

ChatSideTimes == {1, 2, 3, 53}

ChatEndTimes == {2, 3, 54}

ChatSenderTimes == {0, 1, 2}

NextChat ==
    \/ /\ clock \in ChatStartTimes
       /\ \E sid \in {"s1", "s2"} : StartSession("u1", sid)
    \/ /\ clock < MaxChatClock
       /\ \E sender \in {"user", "assistant"} :
              /\ sender = "assistant" => clock \in ChatSenderTimes
              /\ AddMessage("s1",
                            IF /\ "s1" \in DOMAIN active_sessions
                               /\ active_sessions["s1"].messages # <<>>
                            THEN "more" ELSE "Hello",
                            sender)
    \/ /\ clock \in ChatSideTimes
       /\ \E sid \in {"s2", "s3"} : AddMessage(sid, "Hello", "user")
    \/ /\ clock \in ChatEndTimes
       /\ \E sid \in {"s1", "s2"} : EndSession(sid)

SpecChat == Init /\ [][NextChat]_vars

\* The whole core: every operation of the ContextManager and of the
\* RequestProcessor, in any order.
MainRules == {1, 3}

MainSignals == {1, 2, 3}

MainModes == {"work", "mixed", "vacation", "bogus"}

Next ==
    \/ Initialize
    \/ /\ clock < MaxClock
       /\ \E u \in Users : CreateUserProfile(u, "Alice")
    \/ /\ clock < MaxClock
       /\ \E ct \in ContextTypes : \E i \in {1, 2} :
              UpdateUserContext("u1", ct, Patches[i])
    \/ \E i \in MainRules :
           /\ \A k \in DOMAIN rules : rules[k].name # RuleCatalogue[i].name
           /\ AddContextRule("u1", RuleCatalogue[i])
    \/ /\ clock < MaxClock
       /\ \E m \in MainModes : SwitchMode("u1", m, "test")
    \/ /\ clock < MaxClock
       /\ \E u \in Users : \E m \in MainModes : HandleModeSwitch(u, m)
    \/ /\ clock < MaxClock
       /\ \E j \in MainSignals : \E fault \in Faults :
              ProcessUserRequest("u1", "hi", FALSE, SignalContexts[j], fault)
    \/ /\ clock < MaxClock
       /\ \E j \in MainSignals :
              ProcessUserRequest("u2", "hi", TRUE, SignalContexts[j], "none")
    \/ \E u \in Users : ClearUserData(u)

Spec == Init /\ [][Next]_vars

---------------------------------------------------------------------------
(* Properties of the context maps (SpecCtx) *)

\* C1: for a user with a profile, get_current_context returns exactly the
\* personal map in personal mode, exactly the work map in work mode, and in
\* mixed mode the personal map overlaid by the work map: the keys are those
\* of either map, every key of the work map carries the work value, every
\* personal-only key keeps its personal value.
C1_EffectiveContext ==
    (/\ ret.op = "get_current_context"
     /\ ret.user_id \in DOMAIN profiles
     /\ current_mode \in ValidModes) =>
        LET p == profiles[ret.user_id]
            v == ret.value
        IN /\ current_mode = "personal" => v = p.personal_context
           /\ current_mode = "work" => v = p.work_context
           /\ current_mode = "mixed" =>
                /\ DOMAIN v = DOMAIN p.work_context
                                \cup DOMAIN p.personal_context
                /\ \A k \in DOMAIN p.work_context : v[k] = p.work_context[k]
                /\ \A k \in DOMAIN p.personal_context
                                \ DOMAIN p.work_context :
                       v[k] = p.personal_context[k]

\* A mixed-mode read of a profile whose maps disagree on one key while
\* another key is in the personal map only.
C1_Witness ==
    /\ ret.op = "get_current_context"
    /\ ret.user_id \in DOMAIN profiles
    /\ current_mode = "mixed"
    /\ LET p == profiles[ret.user_id]
       IN /\ \E k \in DOMAIN p.work_context \cap DOMAIN p.personal_context :
                 p.work_context[k] # p.personal_context[k]
          /\ DOMAIN p.personal_context \ DOMAIN p.work_context # {}

---------------------------------------------------------------------------
(* Properties of the rule engine (SpecRules) *)

\* The rows of the user's active rules that match the signal of the last
\* evaluate_context_switch call.
Candidates ==
    {i \in DOMAIN rules :
        /\ rules[i].user_id = ret.user_id
        /\ rules[i].active
        /\ rule_matches(rules[i], ret.context, ret.now)}

TopCandidates ==
    {i \in Candidates :
        \A j \in Candidates : rules[j].priority <= rules[i].priority}

\* C2: evaluate_context_switch returns the target_mode of a rule of highest
\* priority among the user's active rules that match the signal, and none
\* when no active rule of the user matches; inactive rules are never
\* selected.
C2_HighestPriorityActive ==
    ret.op = "evaluate_context_switch" =>
        IF Candidates = {} THEN ret.value = None
        ELSE \E i \in TopCandidates : ret.value = rules[i].target_mode

\* An evaluation that selects among active matching rules of two different
\* priorities while an inactive matching rule of the user has a higher
\* priority than all of them.
C2_Witness ==
    /\ ret.op = "evaluate_context_switch"
    /\ \E i, j \in Candidates : rules[i].priority < rules[j].priority
    /\ \E k \in DOMAIN rules :
           /\ rules[k].user_id = ret.user_id
           /\ ~rules[k].active
           /\ rule_matches(rules[k], ret.context, ret.now)
           /\ \A i \in Candidates : rules[i].priority < rules[k].priority
           /\ rules[k].target_mode # ret.value

Min(S) == CHOOSE x \in S : \A y \in S : x <= y

---------------------------------------------------------------------------
(* Properties of the bounded history (SpecHist) *)

\* C4: the global request history never holds more than 100 entries; as
\* long as clear_user_data has not been called, after k requests have been
\* answered it holds the min(k, 100) most recent entries in arrival
\* order (for k > 100: exactly 100, the oldest evicted first).
C4_HistoryBounded ==
    /\ Len(request_history) <= HistoryCap
    /\ ~cleared =>
        /\ Len(request_history) =
               (IF Len(served) > HistoryCap THEN HistoryCap ELSE Len(served))
        /\ \A i \in DOMAIN request_history :
               request_history[i] =
                   served[Len(served) - Len(request_history) + i]

\* 150 requests answered one after the other, none cleared: the history
\* starts at the 51st.
C4_Witness ==
    /\ ~cleared
    /\ Len(served) = 150
    /\ Len(request_history) = HistoryCap
    /\ request_history[1] = served[51]
    /\ request_history[HistoryCap] = served[150]

---------------------------------------------------------------------------
(* Properties of the request processor (Spec) *)

\* C5: process_user_request never raises: whenever a step of the call
\* fails (an exception of a ContextManager call or of the engine, the
\* engine not initialized, a current mode that is no ProcessingMode), it
\* returns the apology text, no actions, confidence 0.0 and
\* requires_confirmation = false.
C5_NeverPropagates ==
    ret.op = "process_user_request" =>
        /\ ~ret.exc
        /\ (ret.fault # "none" \/ ~initialized
              \/ current_mode \notin ValidModes) =>
            /\ ret.response.text = ErrorResponse.text
            /\ ret.response.actions = <<>>
            /\ ret.response.confidence = 0
            /\ ret.response.requires_confirmation = FALSE

\* A call whose learning record fails, after the engine has answered.
C5_Witness ==
    /\ ret.op = "process_user_request"
    /\ ret.fault = "learn"
    /\ ret.steps[Len(ret.steps)] = "LEARNING_RECORD"
    /\ ret.response.text = ErrorResponse.text

\* C6: a process_user_request that returns a non-degraded response has
\* performed, once each and in this order: profile resolution, auto-switch
\* evaluation, context build, reasoning dispatch, learning record, history
\* append, response.
C6_StepOrder ==
    (ret.op = "process_user_request" /\ ~ret.exc /\ ~ret.degraded) =>
        ret.steps = <<"PROFILE_RESOLUTION", "AUTO_SWITCH_EVAL",
                      "CONTEXT_BUILD", "REASONING_DISPATCH",
                      "LEARNING_RECORD", "HISTORY_APPEND", "RESPONSE">>

\* A request answered by the engine, its entry the last of the history.
C6_Witness ==
    /\ ret.op = "process_user_request"
    /\ ~ret.degraded
    /\ ret.response = EngineResponse
    /\ Len(request_history) > 0
    /\ request_history[Len(request_history)].user_id = ret.user_id

\* The step is a call of switch_mode(user_id, mode, reason): a direct call,
\* or the one handle_mode_switch makes for a valid target.
IsSwitchCall(r) ==
    \/ r.op = "switch_mode"
    \/ r.op = "handle_mode_switch" /\ r.value = "switched"

SwitchCallMode(r) == IF r.op = "switch_mode" THEN r.new_mode ELSE r.target_mode

SwitchCallReason(r) == IF r.op = "switch_mode" THEN r.reason ELSE "manual"

\* C7: switch_mode(user, new_mode, reason) sets the shared current mode to
\* new_mode and appends exactly one transition record {user, new_mode,
\* reason, previous_mode}, previous_mode being the current mode just before
\* the call; it changes no profile, rule or history entry.
C7_SwitchMode ==
    [][IsSwitchCall(ret') =>
        /\ current_mode' = SwitchCallMode(ret')
        /\ Len(context_history') = Len(context_history) + 1
        /\ SubSeq(context_history', 1, Len(context_history))
               = context_history
        /\ LET rec == context_history'[Len(context_history')]
           IN /\ rec.user_id = ret'.user_id
              /\ rec.mode = SwitchCallMode(ret')
              /\ rec.trigger_reason = SwitchCallReason(ret')
              /\ rec.context_snapshot.previous_mode = current_mode
        /\ UNCHANGED <<profiles, rules, request_history>>]_vars

\* A switch away from a mode that an earlier switch had set.
C7_Witness ==
    /\ IsSwitchCall(ret)
    /\ Len(context_history) >= 2
    /\ LET rec == context_history[Len(context_history)]
       IN /\ rec.context_snapshot.previous_mode # "personal"
          /\ rec.context_snapshot.previous_mode # rec.mode
          /\ rec.context_snapshot.previous_mode
                 = context_history[Len(context_history) - 1].mode

\* C8: after any sequence of operations the shared current mode is one of
\* work, personal, mixed.
C8_ModeAlwaysValid == current_mode \in ValidModes

\* C9: in a process_user_request in which no collaborator raises, when
\* evaluate_context_switch yields a mode m, switch_mode(user, m,
\* "automatic") runs before the context is built: the request is dispatched
\* with mode m and m's effective context and exactly one transition record,
\* with reason automatic, is appended; when it yields none, the current
\* mode and the transition trail are left unchanged.
AutoSwitchStep ==
    IF ret'.new_mode # None
    THEN /\ ret'.dispatched
         /\ ret'.ai_request.mode = ret'.new_mode
         /\ current_mode' = ret'.new_mode
         /\ ret'.ai_request.context =
                get_current_context(Store', ret'.user_id)
         /\ Len(context_history') = Len(context_history) + 1
         /\ LET rec == context_history'[Len(context_history')]
            IN /\ rec.user_id = ret'.user_id
               /\ rec.mode = ret'.new_mode
               /\ rec.trigger_reason = "automatic"
    ELSE /\ current_mode' = current_mode
         /\ context_history' = context_history

C9_AutoSwitchBeforeContext ==
    [][(ret'.op = "process_user_request" /\ ret'.fault = "none")
          => AutoSwitchStep]_vars

\* The same statement for the rules whose target is work, personal or
\* mixed (it holds: the calls that break it are those of rules with another
\* target).
C9_ValidTargets ==
    [][(/\ ret'.op = "process_user_request"
        /\ ret'.fault = "none"
        /\ ret'.new_mode \in ValidModes \cup {None})
          => AutoSwitchStep]_vars

\* C10: handle_mode_switch with a target outside {work, personal, mixed}
\* returns the descriptive text without raising and leaves the current
\* mode, the transition trail, the profiles and the history unchanged.
C10_InvalidTargetRejected ==
    [][(ret'.op = "handle_mode_switch"
          /\ ret'.target_mode \notin ValidModes) =>
        /\ ret'.value = "invalid"
        /\ ~ret'.exc
        /\ UNCHANGED <<current_mode, context_history, profiles, rules,
                       request_history>>]_vars

\* An invalid target rejected after the mode had been switched to work.
C10_Witness ==
    /\ ret.op = "handle_mode_switch"
    /\ ret.target_mode \notin ValidModes
    /\ ret.value = "invalid"
    /\ current_mode = "work"
    /\ Len(context_history) = 1

---------------------------------------------------------------------------
(* Properties of the rule matching (SpecMatch) *)

\* C18: a calendar-keyword rule matches iff its keyword, compared without
\* regard to letter case (keyword and title both case-folded), is a
\* substring of the title of at least one event of the signal context: the
\* letter case the keyword was stored in never changes the outcome.
C18_KeywordCaseFolded ==
    (ret.op = "_rule_matches" /\ ret.rule.trigger_type = "calendar") =>
        LET events == Get(ret.context, "calendar_events", <<>>)
        IN ret.value <=>
              \E i \in DOMAIN events :
                  /\ "title" \in DOMAIN events[i]
                  /\ contains(lower(events[i].title),
                              lower(ret.rule.trigger_value))

\* C19: a time-window rule matches iff start <= time of day <= end; a
\* rule with start = end matches at that instant and at no other; a rule
\* with start > end matches at no time of day.
C19_TimeWindow ==
    (ret.op = "_rule_matches" /\ ret.rule.trigger_type = "time") =>
        LET start == ret.rule.trigger_value.start
            end == ret.rule.trigger_value.end
            t == ret.now % DayLen
        IN /\ ret.value <=> (start <= t /\ t <= end)
           /\ start = end => (ret.value <=> t = start)
           /\ start > end => ~ret.value

\* The rule whose window is one instant, matched at that instant of the
\* second day.
C19_Witness ==
    /\ ret.op = "_rule_matches"
    /\ ret.rule.trigger_type = "time"
    /\ ret.rule.trigger_value.start = ret.rule.trigger_value.end
    /\ ret.value
    /\ ret.now >= DayLen

---------------------------------------------------------------------------
(* Properties of the mode sessions (SpecMode) *)

\* The effective context of a profile in a mode, as the contract states it.
EffectiveContext(p, m) ==
    IF m = "work" THEN p.work_context
    ELSE IF m = "personal" THEN p.personal_context
    ELSE [k \in DOMAIN p.personal_context \cup DOMAIN p.work_context |->
             IF k \in DOMAIN p.work_context THEN p.work_context[k]
             ELSE p.personal_context[k]]

\* The latest call of switch_mode: every call inserts one row of
\* context_history and no row is ever deleted.
LastSwitch == context_history[Len(context_history)]

\* The step is a process_user_request of ret'.user_id, with a working
\* engine and no failing collaborator, in which no rule fires.
PlainRequestStep ==
    /\ ret'.op = "process_user_request"
    /\ ret'.fault = "none"
    /\ initialized
    /\ ~Truthy(ret'.new_mode)

\* The step dispatches the effective context of mode m and appends a
\* history entry that records mode m.
ProcessedInMode(m) ==
    /\ current_mode' = m
    /\ ret'.dispatched
    /\ ~ret'.degraded
    /\ ret'.ai_request.mode = m
    /\ ret'.ai_request.context =
           EffectiveContext(profiles'[ret'.user_id], m)
    /\ Len(served') = Len(served) + 1
    /\ served'[Len(served')].mode = m
    /\ served'[Len(served')].user_id = ret'.user_id
    /\ request_history'[Len(request_history')] = served'[Len(served')]

\* C11: handle_mode_switch(u, m) with m one of work, personal, mixed sets
\* the current mode to m and appends one transition record with reason
\* manual; from then until the next call of switch_mode, every
\* process_user_request of u in which no rule fires dispatches the
\* effective context of mode m and records mode m in its history entry.
C11_ManualSwitchHolds ==
    [][/\ (ret'.op = "handle_mode_switch"
             /\ ret'.target_mode \in ValidModes) =>
            /\ current_mode' = ret'.target_mode
            /\ Len(context_history') = Len(context_history) + 1
            /\ SubSeq(context_history', 1, Len(context_history))
                   = context_history
            /\ LET rec == context_history'[Len(context_history')]
               IN /\ rec.user_id = ret'.user_id
                  /\ rec.mode = ret'.target_mode
                  /\ rec.trigger_reason = "manual"
       /\ (/\ PlainRequestStep
           /\ Len(context_history) > 0
           /\ LastSwitch.trigger_reason = "manual"
           /\ LastSwitch.user_id = ret'.user_id) =>
            ProcessedInMode(LastSwitch.mode)]_vars

\* The second request "u1" sends after its manual switch to work, the
\* work map and the personal map of "u1" being different.
C11_Witness ==
    /\ ret.op = "process_user_request"
    /\ ret.user_id = "u1"
    /\ ~Truthy(ret.new_mode)
    /\ Len(context_history) > 0
    /\ LastSwitch.trigger_reason = "manual"
    /\ LastSwitch.user_id = "u1"
    /\ LastSwitch.mode = "work"
    /\ ret.ai_request.context = [k1 |-> "a"]
    /\ profiles["u1"].personal_context # [k1 |-> "a"]
    /\ Len(request_history) >= 2
    /\ \A i \in {Len(request_history) - 1, Len(request_history)} :
           /\ request_history[i].user_id = "u1"
           /\ request_history[i].mode = "work"
           /\ request_history[i].timestamp > LastSwitch.timestamp

\* C12: the current mode is one value shared by all users.  After a call
\* of switch_mode on behalf of a user A (direct, through handle_mode_switch
\* or through a rule of A) has set it to m, a process_user_request of
\* another user B in which no rule of B fires is processed in mode m: the
\* mode stays m, and B's reasoning request, B's effective context and B's
\* history entry are those of mode m.  When m is no member of
\* ProcessingMode, B's request cannot build its context in mode m either:
\* it is the degraded one.
C12_ModeSharedByUsers ==
    [][(/\ PlainRequestStep
        /\ Len(context_history) > 0
        /\ LastSwitch.user_id # ret'.user_id) =>
            IF LastSwitch.mode \in ValidModes
            THEN ProcessedInMode(LastSwitch.mode)
            ELSE /\ current_mode' = LastSwitch.mode
                 /\ ret'.degraded
                 /\ ~ret'.dispatched
                 /\ ret'.steps[Len(ret'.steps)] = "CONTEXT_BUILD"]_vars

\* A request of "u1", whose own latest switch was to mixed, processed in
\* the mode work that "u2" has set since: it carries the work map of "u1".
C12_Witness ==
    /\ ret.op = "process_user_request"
    /\ ret.user_id = "u1"
    /\ ~Truthy(ret.new_mode)
    /\ Len(context_history) >= 2
    /\ LastSwitch.user_id = "u2"
    /\ LastSwitch.mode = "work"
    /\ context_history[Len(context_history) - 1].user_id = "u1"
    /\ context_history[Len(context_history) - 1].mode = "mixed"
    /\ ret.ai_request.mode = "work"
    /\ ret.ai_request.context = [k1 |-> "a"]
    /\ Len(request_history) > 0
    /\ request_history[Len(request_history)].mode = "work"
    /\ request_history[Len(request_history)].user_id = "u1"

\* The history after is the history before with one entry of the user,
\* for the text, appended last (and the oldest entry evicted when the
\* history before was full).
OneEntryAppended(before, after, user_id, text) ==
    /\ Len(after) > 0
    /\ after[Len(after)].user_id = user_id
    /\ after[Len(after)].request = text
    /\ SubSeq(after, 1, Len(after) - 1) =
           IF Len(before) < 100 THEN before ELSE Tail(before)

\* C17 as stated: two consecutive process_user_request calls with the
\* same (user_id, text, additional_context), at the same clock reading
\* and with no operation in between, return the same response text and
\* actions, and each of the two appends exactly one entry to the global
\* history.  The first call is the step; the second is the same call
\* applied to the state the first has left.
C17_Idempotent ==
    [][ret'.op = "process_user_request" =>
        \A r2 \in {process_user_request(Store', request_history',
                                         ret'.call)} :
            /\ r2.response.text = ret'.response.text
            /\ r2.response.actions = ret'.response.actions
            /\ OneEntryAppended(request_history, request_history',
                                ret'.user_id, ret'.call.text)
            /\ OneEntryAppended(request_history', r2.request_history,
                                ret'.user_id, ret'.call.text)]_vars

\* C17, amended: the two calls return the same response text and actions
\* and end the same way; each of them appends exactly one entry to the
\* global history when it is answered by the engine, and none when it
\* ends with the degraded response.
C17_IdempotentUnlessDegraded ==
    [][ret'.op = "process_user_request" =>
        \A r2 \in {process_user_request(Store', request_history',
                                         ret'.call)} :
            /\ r2.response.text = ret'.response.text
            /\ r2.response.actions = ret'.response.actions
            /\ r2.degraded = ret'.degraded
            /\ IF ret'.degraded
               THEN /\ request_history' = request_history
                    /\ r2.request_history = request_history'
               ELSE /\ OneEntryAppended(request_history, request_history',
                                        ret'.user_id, ret'.call.text)
                    /\ OneEntryAppended(request_history',
                                        r2.request_history,
                                        ret'.user_id, ret'.call.text)]_vars

\* The second of two requests of "u1" made one right after the other with
\* the same text and the same additional context, both answered by the
\* engine: the two entries are the last two of the history.
C17_Witness ==
    /\ ret.op = "process_user_request"
    /\ ret.user_id = "u1"
    /\ ~ret.degraded
    /\ Len(request_history) >= 2
    /\ LET e1 == request_history[Len(request_history) - 1]
           e2 == request_history[Len(request_history)]
       IN /\ e1.user_id = "u1"
          /\ e2.user_id = "u1"
          /\ e1.request = e2.request
          /\ e1.response = e2.response
          /\ e1.actions = e2.actions
          /\ e2.timestamp = e1.timestamp + 1
          /\ e2.timestamp = ret.call.now
          /\ ret.call.additional_context = [location |-> "office"]
          /\ Len(context_history) >= 2
          /\ context_history[Len(context_history)].timestamp = e2.timestamp
          /\ context_history[Len(context_history) - 1].timestamp
                 = e1.timestamp

---------------------------------------------------------------------------
(* Properties of the learning buckets (SpecLearn) *)

BucketsBounded(P) ==
    \A u \in DOMAIN P : \A k \in DOMAIN P[u].learning_data :
        Len(P[u].learning_data[k]) <= 1000

\* The step is a request answered by the engine: its learning event goes
\* to the bucket of the mode the request was processed in.  The bucket
\* before the step is old, after the step it is new.
EventAppended(old, new) ==
    /\ IF Len(old) < 1000
       THEN /\ Len(new) = Len(old) + 1
            /\ SubSeq(new, 1, Len(old)) = old
       ELSE /\ Len(new) = 1000
            /\ \A i \in 1..999 : new[i] = old[i + 1]
    /\ new[Len(new)].timestamp = clock
    /\ new[Len(new)].request_text = ret'.ai_request.text
    /\ new[Len(new)].mode = ret'.ai_request.mode

\* C15: each learning bucket of a profile holds at most 1000 events after
\* any sequence of operations; an event appended to a bucket that holds
\* 1000 leaves exactly 1000, the oldest dropped, the others in their
\* previous order, the new event last.
C15_LearningBounded ==
    [][/\ BucketsBounded(profiles')
       /\ (ret'.op = "process_user_request" /\ ~ret'.degraded) =>
            LET u == ret'.user_id
                k == ret'.ai_request.mode \o "_interactions"
                old == IF u \in DOMAIN profiles
                       THEN Get(profiles[u].learning_data, k, <<>>)
                       ELSE <<>>
            IN /\ k \in DOMAIN profiles'[u].learning_data
               /\ EventAppended(old, profiles'[u].learning_data[k])]_vars

\* The bucket of the personal mode is full and has lost its oldest event,
\* the one of the request made at clock reading 0.
C15_Witness ==
    /\ ret.op = "process_user_request"
    /\ ~ret.degraded
    /\ "u1" \in DOMAIN profiles
    /\ "personal_interactions" \in DOMAIN profiles["u1"].learning_data
    /\ LET bucket == profiles["u1"].learning_data["personal_interactions"]
       IN /\ Len(bucket) = 1000
          /\ bucket[1].timestamp > 0
          /\ bucket[1000].timestamp = clock - 1
          /\ \A i \in 1..999 :
                 bucket[i + 1].timestamp = bucket[i].timestamp + 1

---------------------------------------------------------------------------
(* Properties of the history sessions (SpecSession) *)

\* The entries of a user held in a history, in the order of the history.
EntriesOf(history, user_id) ==
    SelectSeq(history, LAMBDA req : req.user_id = user_id)

\* C16: get_request_history(user_id, limit), for every limit >= 0,
\* returns the min(limit, n) most recent entries of that user held in the
\* global history, n being the number of entries of that user it holds,
\* in arrival order with the newest last, however many entries of other
\* users lie in between.
C16_RecentOfUser ==
    ret.op = "get_request_history" =>
        LET own == EntriesOf(request_history, ret.user_id)
            n == Len(own)
            k == Min({ret.limit, n})
        IN ret.value = SubSeq(own, n - k + 1, n)

---------------------------------------------------------------------------
(* Properties of the daily summaries (SpecDaily) *)

\* The entries of the history that belong to the user of the last
\* get_daily_summary call and to the day of that call.
TodayOf ==
    {i \in DOMAIN request_history :
        /\ request_history[i].user_id = ret.user_id
        /\ request_history[i].timestamp \div DayLen = ret.now \div DayLen}

TodayIn(m) == {i \in TodayOf : request_history[i].mode = m}

\* The position in the history of the first of those entries processed
\* in mode m.
FirstIn(m) == CHOOSE i \in TodayIn(m) : \A j \in TodayIn(m) : i <= j

RECURSIVE SumCounts(_)
SumCounts(items) ==
    IF Len(items) = 0 THEN 0
    ELSE Head(items).count + SumCounts(Tail(items))

\* C21: get_daily_summary(u) counts only the history entries of u whose
\* timestamp falls on the current day: mode_distribution maps each mode
\* to the number of those entries processed in it (one item per mode that
\* occurs), total_requests is their sum, most_active_mode is the mode of
\* the largest count, a tie going to the mode first encountered in the
\* order of the history, and none when there is no entry.
C21_DailySummary ==
    ret.op = "get_daily_summary" =>
        LET dist == ret.value.mode_distribution
            modes == {request_history[i].mode : i \in TodayOf}
            most == ret.value.most_active_mode
        IN /\ {dist[k].key : k \in DOMAIN dist} = modes
           /\ Len(dist) = Cardinality(modes)
           /\ \A k \in DOMAIN dist :
                  dist[k].count = Cardinality(TodayIn(dist[k].key))
           /\ ret.value.total_requests = Cardinality(TodayOf)
           /\ ret.value.total_requests = SumCounts(dist)
           /\ IF TodayOf = {} THEN most = None
              ELSE /\ most \in modes
                   /\ \A m \in modes :
                          \/ Cardinality(TodayIn(m))
                                 < Cardinality(TodayIn(most))
                          \/ /\ Cardinality(TodayIn(m))
                                    = Cardinality(TodayIn(most))
                             /\ FirstIn(most) <= FirstIn(m)

\* The summary of "u1" after two personal requests and one work request
\* of the day, the history holding as well an entry of "u1" and an entry
\* of "u2" of the day before.
C21_Witness ==
    /\ ret.op = "get_daily_summary"
    /\ ret.user_id = "u1"
    /\ ret.value.mode_distribution
           = <<[key |-> "personal", count |-> 2],
               [key |-> "work", count |-> 1]>>
    /\ ret.value.most_active_mode = "personal"
    /\ ret.value.total_requests = 3
    /\ \E i, j \in DOMAIN request_history :
           /\ request_history[i].user_id = "u1"
           /\ request_history[i].timestamp \div DayLen
                  < ret.now \div DayLen
           /\ request_history[j].user_id = "u2"

---------------------------------------------------------------------------
(* Properties of the degraded requests (Spec) *)

\* C31: a process_user_request that ends with the degraded response
\* leaves the shared current mode and the transition trail exactly as
\* they were before the request started, whichever step failed.
C31_DegradedLeavesMode ==
    [][(ret'.op = "process_user_request" /\ ret'.degraded) =>
          UNCHANGED <<current_mode, context_history>>]_vars

\* The learning buckets of every user are those of before the step; a
\* profile created by the step has none.
LearningUnchanged ==
    \A u \in DOMAIN profiles' :
        profiles'[u].learning_data =
            IF u \in DOMAIN profiles THEN profiles[u].learning_data
            ELSE EmptyMap

\* C32: a process_user_request that ends with the degraded response
\* because the reasoning dispatch or an earlier step failed appends no
\* entry to the global history and no event to any learning bucket.
C32_DegradedAppendsNothing ==
    [][(/\ ret'.op = "process_user_request"
        /\ ret'.degraded
        /\ ret'.steps[Len(ret'.steps)]
               \in {"PROFILE_RESOLUTION", "AUTO_SWITCH_EVAL",
                    "CONTEXT_BUILD", "REASONING_DISPATCH"}) =>
          /\ request_history' = request_history
          /\ LearningUnchanged]_vars

\* A request of "u1" has ended degraded at the reasoning dispatch, the
\* engine being initialized, after an earlier request of "u1" had left a
\* history entry and a learning event.
C32_Witness ==
    /\ ret.op = "process_user_request"
    /\ ret.user_id = "u1"
    /\ ret.degraded
    /\ ret.dispatched
    /\ initialized
    /\ Len(request_history) = 1
    /\ request_history[1].user_id = "u1"
    /\ request_history[1].timestamp < ret.call.now
    /\ "personal_interactions" \in DOMAIN profiles["u1"].learning_data
    /\ Len(profiles["u1"].learning_data["personal_interactions"]) = 1

---------------------------------------------------------------------------
(* Properties of the transition trail (Spec) *)

\* The transition records of a user held in a trail.
RecordsOf(trail, user_id) ==
    SelectSeq(trail, LAMBDA rec : rec.user_id = user_id)

---------------------------------------------------------------------------
(* Properties of the profiles (SpecProfile) *)

\* "User_" followed by the first 8 characters of the user_id.
DefaultNameOf(u) ==
    CASE u = "u1" -> "User_u1"
      [] u = "u2" -> "User_u2"
      [] u = "user_0123456789" -> "User_user_012"

\* The step keeps the row of v: its identity, name, preferences, context
\* maps and creation time.
ProfileKept(v) ==
    /\ v \in DOMAIN profiles'
    /\ profiles'[v].user_id = profiles[v].user_id
    /\ profiles'[v].name = profiles[v].name
    /\ profiles'[v].preferences = profiles[v].preferences
    /\ profiles'[v].work_context = profiles[v].work_context
    /\ profiles'[v].personal_context = profiles[v].personal_context
    /\ profiles'[v].created_at = profiles[v].created_at

\* The request of the step leaves its user u with a profile: the one it
\* had, or a new one with the default name and empty context maps, no
\* other profile being created or replaced.
ProfileResolved(u) ==
    /\ u \in DOMAIN profiles'
    /\ DOMAIN profiles' = DOMAIN profiles \cup {u}
    /\ u \notin DOMAIN profiles =>
          /\ profiles'[u].user_id = u
          /\ profiles'[u].name = DefaultNameOf(u)
          /\ profiles'[u].work_context = EmptyMap
          /\ profiles'[u].personal_context = EmptyMap
    /\ \A v \in DOMAIN profiles : ProfileKept(v)

\* C22: after process_user_request(u, ...) returns, a profile of u
\* exists; if none existed before the call, exactly one was created, with
\* the name "User_" followed by the first 8 characters of u and empty
\* work and personal contexts; an existing profile is never replaced or
\* renamed.
C22_ProfileAfterRequest ==
    [][ret'.op = "process_user_request" =>
          ProfileResolved(ret'.user_id)]_vars

\* C22, amended: the same, unless the profile resolution itself failed
\* (the request then returns the degraded response having run no other
\* step, and no profile is created or changed).
C22_ProfileUnlessResolutionFails ==
    [][ret'.op = "process_user_request" =>
          IF ret'.degraded /\ ret'.steps = <<"PROFILE_RESOLUTION">>
          THEN profiles' = profiles
          ELSE ProfileResolved(ret'.user_id)]_vars

\* The first request of "user_0123456789" has created its profile, named
\* after the first 8 characters of the user_id, while "u1", enrolled as
\* Alice, has sent a request of its own and is still Alice.
C22_Witness ==
    /\ ret.op = "process_user_request"
    /\ ret.user_id = "user_0123456789"
    /\ ~ret.degraded
    /\ "user_0123456789" \in DOMAIN profiles
    /\ profiles["user_0123456789"].name = "User_user_012"
    /\ profiles["user_0123456789"].created_at = ret.call.now
    /\ profiles["user_0123456789"].work_context = EmptyMap
    /\ "u1" \in DOMAIN profiles
    /\ profiles["u1"].name = "Alice"
    /\ profiles["u1"].learning_data # EmptyMap

\* C24: get_user_profile(u) called after create_user_profile(u, name)
\* returns a profile with that user_id and that name (at any later time
\* the stored name of that user_id), and get_user_profile of a user_id
\* that was never created returns None without raising.
C24_GetAfterCreate ==
    [][ret'.op = "get_user_profile" =>
          /\ ~ret'.exc
          /\ (ret.op = "create_user_profile" /\ ~ret.exc
                 /\ ret.user_id = ret'.user_id) =>
                /\ ret'.value # NoProfile
                /\ ret'.value.user_id = ret.user_id
                /\ ret'.value.name = ret.name
          /\ ret'.user_id \in DOMAIN profiles =>
                /\ ret'.value.user_id = ret'.user_id
                /\ ret'.value.name = profiles[ret'.user_id].name
          /\ ret'.user_id \notin DOMAIN profiles =>
                ret'.value = NoProfile]_vars

\* The profile of "user_0123456789", just created as Bob, read back while
\* "u1" has a profile under another name.
C24_Witness ==
    /\ ret.op = "get_user_profile"
    /\ ret.user_id = "user_0123456789"
    /\ ret.value # NoProfile
    /\ ret.value.name = "Bob"
    /\ ret.value.user_id = "user_0123456789"
    /\ ret.value.created_at = clock - 1
    /\ "u1" \in DOMAIN profiles
    /\ profiles["u1"].name = "Alice"

\* The context map of profile p that update_user_context names by kind,
\* and the other one.
NamedMap(p, kind) ==
    IF kind = "work" THEN p.work_context ELSE p.personal_context

OtherMap(p, kind) ==
    IF kind = "work" THEN p.personal_context ELSE p.work_context

\* C25: update_user_context(u, kind, patch) on an existing profile
\* shallow-merges patch into the named map only: every key of patch ends
\* with the patch value, every other key of that map keeps its value (no
\* other key appears), and the other context map, the learning buffers,
\* the current mode and the history are unchanged.
C25_UpdateMergesNamedMapOnly ==
    [][(ret'.op = "update_user_context" /\ ~ret'.exc) =>
          LET u == ret'.user_id
              kind == ret'.context_type
              patch == ret'.updates
              old == NamedMap(profiles[u], kind)
              new == NamedMap(profiles'[u], kind)
          IN /\ DOMAIN new = DOMAIN old \cup DOMAIN patch
             /\ \A k \in DOMAIN patch : new[k] = patch[k]
             /\ \A k \in DOMAIN old \ DOMAIN patch : new[k] = old[k]
             /\ OtherMap(profiles'[u], kind) = OtherMap(profiles[u], kind)
             /\ profiles'[u].learning_data = profiles[u].learning_data
             /\ DOMAIN profiles' = DOMAIN profiles
             /\ \A v \in DOMAIN profiles \ {u} : profiles'[v] = profiles[v]
             /\ UNCHANGED <<current_mode, context_history,
                            request_history>>]_vars

\* The work map of "u1" after a patch that added the key k2 and kept the
\* key k1; "u1" has learning events and a history entry, the mode is
\* work and the personal map is empty.
C25_Witness ==
    /\ ret.op = "update_user_context"
    /\ ~ret.exc
    /\ ret.user_id = "u1"
    /\ ret.context_type = "work"
    /\ ret.updates = [k2 |-> "c"]
    /\ profiles["u1"].work_context = [k1 |-> "a", k2 |-> "c"]
    /\ profiles["u1"].personal_context = EmptyMap
    /\ profiles["u1"].learning_data # EmptyMap
    /\ current_mode = "work"
    /\ Len(request_history) = 1

\* The values a context map may hold under its keys.
ContextValues == {"a", "b", "c", "secret"}

\* The stores that differ from the current one only in the values held
\* under the keys of the two context maps of user_id.
ValueVariants(user_id) ==
    {[Store EXCEPT !.profiles[user_id].work_context = w,
                   !.profiles[user_id].personal_context = p] :
        w \in [DOMAIN profiles[user_id].work_context -> ContextValues],
        p \in [DOMAIN profiles[user_id].personal_context -> ContextValues]}

\* The values held in the context maps of a profile.
ValuesOf(profile) ==
    {profile.work_context[k] : k \in DOMAIN profile.work_context}
        \cup {profile.personal_context[k] :
                  k \in DOMAIN profile.personal_context}

\* C28: get_privacy_report(u) exposes the key names of the work and
\* personal context maps, never their values: every state that differs
\* from the current one only in the values stored under the same context
\* keys gives the same report (the same work_context_keys and
\* personal_context_keys in particular), the two lists are the keys of
\* the two maps, and no context value appears in a report field.
C28_ReportKeysOnly ==
    (ret.op = "get_privacy_report" /\ ret.user_id \in DOMAIN profiles) =>
        LET u == ret.user_id
            report == ret.value
        IN /\ \A s2 \in ValueVariants(u) :
                  get_privacy_report(s2, u) = report
           /\ report.work_context_keys = DOMAIN profiles[u].work_context
           /\ report.personal_context_keys
                  = DOMAIN profiles[u].personal_context
           /\ (report.work_context_keys \cup report.personal_context_keys)
                  \cap ValuesOf(profiles[u]) = {}
           /\ report.user_id \notin ValuesOf(profiles[u])
           /\ report.storage_location \notin ValuesOf(profiles[u])
           /\ DOMAIN report =
                  {"user_id", "profile_created", "last_updated",
                   "total_interactions", "context_rules",
                   "work_context_keys", "personal_context_keys",
                   "learning_data_size", "storage_location"}

\* The report of "u1", whose work map holds values under k1 and k2 and
\* whose personal map holds one under k2, with one learning event and one
\* transition record.
C28_Witness ==
    /\ ret.op = "get_privacy_report"
    /\ ret.user_id = "u1"
    /\ "u1" \in DOMAIN profiles
    /\ profiles["u1"].work_context = [k1 |-> "b", k2 |-> "b"]
    /\ profiles["u1"].personal_context = [k2 |-> "c"]
    /\ ret.value.work_context_keys = {"k1", "k2"}
    /\ ret.value.personal_context_keys = {"k2"}
    /\ ret.value.learning_data_size = 246
    /\ ret.value.total_interactions = 1

---------------------------------------------------------------------------
(* Properties of the enrolments (SpecEnrol) *)

\* The step is a call of user_id that finds or creates the profile: the
\* start of a process_user_request or its return.
RequestStepOf(user_id) ==
    /\ ret'.op \in {"process_user_request",
                    "process_user_request_suspended"}
    /\ ret'.user_id = user_id

\* C23: create_user_profile for a user_id that has a profile fails and
\* leaves the stored profile (name, preferences, contexts, learning data)
\* unchanged; the one row of a user_id is the row of its first insertion
\* after any sequence of operations: no later create_user_profile and no
\* request, first-contact requests of the same user running concurrently
\* included, inserts a second one or writes the first one again.
C23_OneProfilePerUser ==
    [][/\ (ret'.op = "create_user_profile"
            /\ ret'.user_id \in DOMAIN profiles) =>
              /\ ret'.exc
              /\ profiles' = profiles
       /\ \A u \in DOMAIN profiles :
              /\ u \in DOMAIN profiles'
              /\ profiles'[u].user_id = u
              /\ profiles'[u].name = profiles[u].name
              /\ profiles'[u].preferences = profiles[u].preferences
              /\ profiles'[u].created_at = profiles[u].created_at
       /\ \A u \in Users :
              RequestStepOf(u) =>
                 /\ u \in DOMAIN profiles'
                 /\ DOMAIN profiles' = DOMAIN profiles \cup {u}]_vars

\* create_user_profile("u1", "Alice") has failed: two first-contact
\* requests of "u1" are in flight, the first of which has created the
\* default profile, and "u1" has filled its work context since.
C23_Witness ==
    /\ ret.op = "create_user_profile"
    /\ ret.user_id = "u1"
    /\ ret.name = "Alice"
    /\ ret.exc
    /\ Len(tasks) = 2
    /\ \A i \in DOMAIN tasks :
           tasks[i].call.user_id = "u1" /\ tasks[i].state = "waiting"
    /\ profiles["u1"].name = "User_u1"
    /\ profiles["u1"].created_at = tasks[1].call.now
    /\ profiles["u1"].work_context = [k1 |-> "a"]
    /\ DOMAIN profiles = {"u1"}

---------------------------------------------------------------------------
(* Properties of the privacy settings (SpecPrivacy) *)

\* The rule through which the request of the step has switched the mode:
\* the first of the user's active rules, by priority, that matches.
SwitchingRule ==
    SelectSeq(get_context_rules(Store, ret'.user_id),
              LAMBDA r : rule_matches(r, ret'.call.additional_context,
                                      ret'.call.now))[1]

\* C26: a location rule (a calendar rule) of a user matches only when
\* check_data_access_permission(user, "location") (respectively
\* "calendar") is true: a request of a user whose privacy settings deny
\* location tracking or calendar access never causes an automatic mode
\* switch through such a rule.
C26_PrivacyGate ==
    [][(ret'.op = "process_user_request" /\ Truthy(ret'.new_mode)) =>
          /\ SwitchingRule.trigger_type = "location" =>
                check_data_access_permission(privacy_settings,
                                             ret'.user_id, "location")
          /\ SwitchingRule.trigger_type = "calendar" =>
                check_data_access_permission(privacy_settings,
                                             ret'.user_id, "calendar")]_vars

---------------------------------------------------------------------------
(* Properties of the event loop (SpecAsync) *)

\* The task the step belongs to (0: the step is not of a task).
StepTask == IF "task" \in DOMAIN ret' THEN ret'.task ELSE 0

\* The step makes no mode switch, no learning-buffer append and no
\* history append.
NoMutation ==
    /\ UNCHANGED <<current_mode, context_history, request_history>>
    /\ \A u \in DOMAIN profiles :
           profiles'[u].learning_data = profiles[u].learning_data

\* C13: requests are processed strictly one at a time: between the start
\* and the end of a process_user_request, its reasoning dispatch pending
\* or not, no step of another process_user_request or of a
\* handle_mode_switch makes a mutation (mode switch, learning-buffer
\* append, history append).
C13_OneAtATime ==
    [][\A i \in DOMAIN tasks :
          (tasks[i].state # "returned" /\ StepTask # i) => NoMutation]_vars

\* C29: the learning event recorded for a request is appended to the
\* bucket "<m>_interactions" and carries mode = m, m being the mode the
\* request was processed in (the mode of its AIRequest and of its history
\* entry), also when another request or a handle_mode_switch has changed
\* the current mode while the engine call was pending.
C29_LearningUnderRequestMode ==
    [][(ret'.op = "process_user_request" /\ ~ret'.degraded) =>
          LET u == ret'.user_id
              m == ret'.ai_request.mode
              k == m \o "_interactions"
              old == IF u \in DOMAIN profiles
                     THEN profiles[u].learning_data ELSE EmptyMap
              new == profiles'[u].learning_data
          IN /\ request_history'[Len(request_history')].mode = m
             /\ k \in DOMAIN new
             /\ Len(new[k]) = Len(Get(old, k, <<>>)) + 1
             /\ new[k][Len(new[k])].mode = m
             /\ new[k][Len(new[k])].request_text = ret'.ai_request.text
             /\ \A j \in DOMAIN new \ {k} :
                    j \in DOMAIN old /\ new[j] = old[j]]_vars

\* C30: with several process_user_request calls in flight at once, each
\* suspended at its engine call, the global history is in arrival order:
\* the timestamps of its entries, taken when each request was assembled,
\* are non-decreasing from the oldest entry to the newest.
C30_HistoryInArrivalOrder ==
    \A i, j \in DOMAIN request_history :
        i < j => request_history[i].timestamp <= request_history[j].timestamp

\* C14: every process_user_request eventually returns a response, normal
\* or degraded, also when the engine call fails or never answers.
C14_EveryRequestReturns ==
    \A i \in 1..MaxTasks :
        [](i \in DOMAIN tasks =>
              <>(i \in DOMAIN tasks /\ tasks[i].state = "returned"))

\* Once the engine call of a request has ended, with a response or with an
\* exception, the request returns (it holds: the requests that never
\* return are those the engine never answers).
C14_AnsweredRequestsReturn ==
    \A i \in 1..MaxTasks :
        []((i \in DOMAIN tasks /\ tasks[i].state = "answered") =>
              <>(i \in DOMAIN tasks /\ tasks[i].state = "returned"))

---------------------------------------------------------------------------
(* Properties of the event loop with context maps (SpecAsyncCtx) *)

\* C33: the context passed to the engine for a request is the effective
\* context of the very mode passed in the same AIRequest, at the time the
\* request is assembled, and that mode is the one later stored in the
\* history entry of the request, under every interleaving of concurrent
\* requests and mode switches: the request a task returns with is the one
\* it was suspended with.
C33_ContextOfRequestMode ==
    [][/\ ret'.op = "process_user_request_suspended" =>
             LET request == tasks'[ret'.task].frame.ai_request
             IN /\ request.mode = current_mode'
                /\ request.context =
                       EffectiveContext(profiles'[ret'.user_id],
                                        request.mode)
       /\ (ret'.op = "process_user_request" /\ ~ret'.degraded
             /\ "task" \in DOMAIN ret') =>
             /\ ret'.ai_request = tasks[ret'.task].frame.ai_request
             /\ request_history'[Len(request_history')].mode
                    = ret'.ai_request.mode
             /\ request_history'[Len(request_history')].timestamp
                    = ret'.ai_request.timestamp]_vars

\* A request of "u1" assembled in mode personal with the personal map
\* returns after the mode has been switched to work: its history entry
\* says personal, and the work map differs from what was passed.
C33_Witness ==
    /\ ret.op = "process_user_request"
    /\ ~ret.degraded
    /\ "task" \in DOMAIN ret
    /\ ret.ai_request.mode = "personal"
    /\ ret.ai_request.context = [k2 |-> "c"]
    /\ current_mode = "work"
    /\ profiles["u1"].work_context = [k1 |-> "b", k2 |-> "b"]
    /\ request_history[Len(request_history)].mode = "personal"

---------------------------------------------------------------------------
(* Properties of the transition trail under database errors (SpecTrail) *)

\* C34: within one process lifetime the transition trail is a chain: the
\* previous_mode of every record is the mode of the record appended
\* immediately before it (over all users), the previous_mode of the first
\* record is the initial mode personal, and the current mode is always
\* the mode of the latest record.
C34_TrailIsChain ==
    /\ \A i \in 2..Len(context_history) :
           context_history[i].context_snapshot.previous_mode
               = context_history[i - 1].mode
    /\ Len(context_history) > 0 =>
           /\ context_history[1].context_snapshot.previous_mode = "personal"
           /\ current_mode = context_history[Len(context_history)].mode

---------------------------------------------------------------------------
(* Properties of the history and learning counts (SpecAsync) *)

\* The number of entries of a user in a history.
EntriesCount(history, u) ==
    Cardinality({i \in DOMAIN history : history[i].user_id = u})

RECURSIVE SumLens(_, _)
SumLens(learning_data, keys) ==
    IF keys = {} THEN 0
    ELSE LET k == CHOOSE x \in keys : TRUE
         IN Len(learning_data[k]) + SumLens(learning_data, keys \ {k})

\* The number of learning events of a user, over all its buckets.
EventsOf(table, u) ==
    IF u \in DOMAIN table
    THEN SumLens(table[u].learning_data, DOMAIN table[u].learning_data)
    ELSE 0

\* No buffer has reached its capacity and clear_user_data was not called.
BelowCapacity ==
    /\ ~cleared
    /\ Len(request_history) < HistoryCap
    /\ \A u \in DOMAIN profiles : \A k \in DOMAIN profiles[u].learning_data :
           Len(profiles[u].learning_data[k]) < LearningCap

CountsAgree ==
    BelowCapacity =>
        \A u \in Users :
            EntriesCount(request_history, u) = EventsOf(profiles, u)

AppendsOneOfEach ==
    (BelowCapacity /\ ret'.op = "process_user_request" /\ ~ret'.degraded) =>
        \A u \in Users :
            LET n == IF u = ret'.user_id THEN 1 ELSE 0
            IN /\ EntriesCount(request_history', u)
                      = EntriesCount(request_history, u) + n
               /\ EventsOf(profiles', u) = EventsOf(profiles, u) + n

\* C35: every non-degraded process_user_request appends exactly one
\* history entry and exactly one learning event for its user; while no
\* buffer has reached its capacity and clear_user_data was not called,
\* the number of a user's history entries equals the number of events in
\* the user's learning buckets, also with requests in flight at once.
C35_OneEntryOneEvent == []CountsAgree /\ [][AppendsOneOfEach]_vars

\* Two requests of one user were in flight together and both have
\* returned a response: the user has two entries and two events.
C35_Witness ==
    /\ Len(tasks) = 2
    /\ \A i \in DOMAIN tasks :
           tasks[i].state = "returned" /\ tasks[i].call.user_id = "u1"
    /\ Len(request_history) = 2
    /\ request_history[1].timestamp > request_history[2].timestamp
    /\ EntriesCount(request_history, "u1") = 2
    /\ EventsOf(profiles, "u1") = 2
    /\ ~cleared

---------------------------------------------------------------------------
(* Properties of the read operations (SpecRead) *)

ReadOperations ==
    {"evaluate_context_switch", "get_current_context", "get_context_summary",
     "get_daily_summary", "get_request_history", "get_privacy_report"}

\* C36: evaluate_context_switch, get_current_context, get_context_summary,
\* get_daily_summary, get_request_history and get_privacy_report are
\* read-only: each leaves the current mode, the transition trail, the
\* rules, every profile (context maps and learning buffers) and the
\* global history unchanged.
C36_ReadsChangeNothing ==
    [][ret'.op \in ReadOperations =>
          UNCHANGED <<current_mode, context_history, rules, profiles,
                      request_history>>]_vars

\* get_context_summary has answered for a user with a filled work
\* context, a learning event and a request in the history, after a mode
\* switch was recorded and with a rule stored.
C36_Witness ==
    /\ ret.op = "get_context_summary"
    /\ "error" \notin DOMAIN ret.value
    /\ ret.value.work_context_active
    /\ ret.value.learning_interactions > 0
    /\ ret.value.recent_requests_count > 0
    /\ context_history # <<>>
    /\ rules # <<>>

---------------------------------------------------------------------------
(* Properties of the refused context updates (SpecProfile) *)

\* C37: update_user_context raises the error "User profile not found"
\* when the profile is missing and the error "Invalid context type" when
\* the context type is neither work nor personal; in both cases no
\* profile is created and no stored context map, learning buffer or mode
\* changes.
C37_RefusedUpdateChangesNothing ==
    [][ret'.op = "update_user_context" =>
          /\ ret'.user_id \notin DOMAIN profiles =>
                 ret'.exc /\ ret'.error = "User profile not found"
          /\ (/\ ret'.user_id \in DOMAIN profiles
              /\ ret'.context_type \notin {"work", "personal"}) =>
                 ret'.exc /\ ret'.error = "Invalid context type"
          /\ ret'.exc =>
                 /\ DOMAIN profiles' = DOMAIN profiles
                 /\ \A u \in DOMAIN profiles :
                        /\ profiles'[u].work_context = profiles[u].work_context
                        /\ profiles'[u].personal_context
                               = profiles[u].personal_context
                        /\ profiles'[u].learning_data
                               = profiles[u].learning_data
                 /\ current_mode' = current_mode]_vars

\* An update with the context type "shared" was refused for a user whose
\* profile holds a work map and a learning event, in work mode.
C37_Witness ==
    /\ ret.op = "update_user_context"
    /\ ret.exc
    /\ ret.error = "Invalid context type"
    /\ ret.user_id \in DOMAIN profiles
    /\ profiles[ret.user_id].work_context # EmptyMap
    /\ profiles[ret.user_id].learning_data # EmptyMap
    /\ current_mode = "work"

\* An update was refused for a user without a profile while another user
\* has one.
C37_WitnessNotFound ==
    /\ ret.op = "update_user_context"
    /\ ret.error = "User profile not found"
    /\ ret.user_id \notin DOMAIN profiles
    /\ DOMAIN profiles # {}

---------------------------------------------------------------------------
(* Properties of the engine's initialization (Spec) *)

\* C38: the engine serves requests only after initialize has completed:
\* a process_user_request issued while the engine is uninitialized gets
\* the degraded response and appends neither a history entry nor a
\* learning event, and once initialize has returned true the engine stays
\* initialized.
C38_ServesOnlyInitialized ==
    [][/\ (ret'.op = "process_user_request" /\ ~ret'.call.init) =>
              /\ ret'.degraded
              /\ request_history' = request_history
              /\ LearningUnchanged
       /\ (ret'.op = "process_user_request" /\ ~ret'.degraded) =>
              ret'.call.init /\ initialized
       /\ initialized => initialized']_vars

\* A request of an enrolled user who owns a rule reached the engine
\* before initialize and was degraded there.
C38_Witness ==
    /\ ret.op = "process_user_request"
    /\ ~ret.call.init
    /\ ~initialized
    /\ ret.degraded
    /\ ret.steps[Len(ret.steps)] = "REASONING_DISPATCH"
    /\ ret.user_id \in DOMAIN profiles
    /\ profiles[ret.user_id].name = "Alice"
    /\ rules # <<>>

\* A request is served after initialize has returned true and later
\* operations have run.
C38_WitnessServed ==
    /\ ret.op = "process_user_request"
    /\ ~ret.degraded
    /\ initialized
    /\ Len(request_history) > 1

---------------------------------------------------------------------------
(* Properties of the chat sessions (SpecChat) *)

\* C39: add_message on an active session returns true and appends the
\* message last, the session keeping at most its 50 most recent messages
\* in their order; add_message on an unknown or ended session returns
\* false and changes no session, active or ended.
C39_AddMessage ==
    [][ret'.op = "add_message" =>
          IF ret'.session_id \in DOMAIN active_sessions
          THEN LET old == active_sessions[ret'.session_id].messages
                   new == active_sessions'[ret'.session_id].messages
                   dropped == Len(old) + 1 - Len(new)
               IN /\ ret'.value = TRUE
                  /\ Len(new) = IF Len(old) < ChatCap
                                THEN Len(old) + 1 ELSE ChatCap
                  /\ new[Len(new)].message = ret'.message
                  /\ new[Len(new)].sender = ret'.sender
                  /\ \A i \in 1..(Len(new) - 1) : new[i] = old[i + dropped]
          ELSE /\ ret'.value = FALSE
               /\ UNCHANGED <<active_sessions, conversation_history>>]_vars

\* A message was added to a full session whose opening message has been
\* dropped, after another session was ended.
C39_Witness ==
    /\ ret.op = "add_message"
    /\ ret.value
    /\ ret.session_id \in DOMAIN active_sessions
    /\ LET messages == active_sessions[ret.session_id].messages
       IN /\ Len(messages) = ChatCap
          /\ messages[1].message # "Hello"
    /\ conversation_history # <<>>

\* A message was refused for an ended session while another session is
\* active and holds messages.
C39_WitnessEnded ==
    /\ ret.op = "add_message"
    /\ ~ret.value
    /\ \E i \in DOMAIN conversation_history :
           conversation_history[i].session_id = ret.session_id
    /\ \E k \in DOMAIN active_sessions : active_sessions[k].messages # <<>>

====
